---- MODULE Spec2Model ----
(***************************************************************************)
(* The full-format directory engine of securefs: a paged B-tree            *)
(* (BtreeDirectory, btree_dir.cpp) kept in a block stream together with    *)
(* its free-page list and its write-back node cache.                       *)
(*                                                                         *)
(* A directory is the record                                               *)
(*   [root_page, start_free_page, num_free_page,   header scalars          *)
(*    m_stream,       the blocks of the stream, page p is m_stream[p + 1]  *)
(*    m_node_cache,   page number -> resident BtreeNode                    *)
(*    max,            MAX_NUM_ENTRIES of the build                         *)
(*    err,            "ok", or the exception / undefined behaviour that    *)
(*                    ended the running operation                          *)
(*    ub,             what the build makes of undefined behaviour          *)
(*    did]            history: the steps the running operation has taken   *)
(* and every routine of btree_dir.cpp is an operator from directories to   *)
(* directories.  Vector indices are 0-based as in the source.  A value     *)
(* that a routine uses more than once is the parameter of a local          *)
(* operator, named after the step of the routine that uses it.             *)
(***************************************************************************)
EXTENDS Integers, Sequences, FiniteSets, TLC

\* ------------------------------------------------------------------ bounds
\* Names are integers, compared as integers (the injected comparator).
\* A run starts from the fresh directory, its callers using the names
\* 1..MaxName, or from a directory that add_entry of 1..k in ascending order
\* has built: k = SmallBase (a root over three leaves), its callers using
\* two names of each outer leaf, or k = BaseSize (one insert short of three
\* levels), its callers using two names of neighbouring leaves (one of them
\* a separator) and the four names above the base.
MaxName == 6

SmallBase == 9

BaseSize == 20

\* the insert-only runs use the names 1..MaxInsertName
MaxInsertName == 8

\* the builds of the engine range over MAX_NUM_ENTRIES in 4..MaxBuildEntries
MaxBuildEntries == 5
MaxCacheName == 3
MaxFreeCount == 2

\* the threads that call lock() and unlock() on one File
NumThreads == 3

Names == 1 .. MaxName

InsertNames == 1 .. MaxInsertName

SmallNames == {1, 4, 7, 8}

DeepNames == {4, 9} \cup (BaseSize + 1 .. BaseSize + 4)

CacheNames == 1 .. MaxCacheName
ReopenNames == {1, 7}
ProbeNames == {1, 6}
AllNames == Names \cup InsertNames \cup (1 .. SmallBase) \cup SmallNames
                \cup (1 .. BaseSize) \cup DeepNames

\* the (id, type) pairs a caller may store; the callers of the built
\* directory store the first only
BaseValue == [id |-> 1, type |-> 0]

Values == {BaseValue, [id |-> 2, type |-> 1]}

\* --------------------------------------------------------------- constants
\* 0xFFFFFFFF, "none"
INVALID_PAGE == -1

BTREE_MAX_DEPTH == 32

\* MAX_NUM_ENTRIES of the reference build is odd (13); the model's standard
\* build uses the smallest odd value the engine admits.
RefMaxEntries == 5

\* Directory::MAX_FILENAME_LENGTH
MAX_FILENAME_LENGTH == 255

\* A name is the code of a byte string and the codes are ordered as the
\* strings are.  Every code stands for a two-byte name ("01", "02", ...)
\* but these: "FOO", "Foo" and "foo"; EdgeName, a name of exactly
\* MAX_FILENAME_LENGTH bytes; LongName, a name of MAX_FILENAME_LENGTH + 1
\* bytes.
UpperFoo == 31

MixedFoo == 32

LowerFoo == 33

EdgeName == 98

LongName == 99

\* name.size()
name_size(name) ==
    IF name = LongName THEN MAX_FILENAME_LENGTH + 1
    ELSE IF name = EdgeName THEN MAX_FILENAME_LENGTH
    ELSE IF name \in {UpperFoo, MixedFoo, LowerFoo} THEN 3
    ELSE 2

\* the case folding of a name
case_fold(name) == IF name \in {UpperFoo, MixedFoo, LowerFoo} THEN LowerFoo ELSE name

\* case_insensitive_compare, the comparator the mount command injects for a
\* case-insensitive file system: negative, zero or positive
case_insensitive_compare(a, b) ==
    IF case_fold(a) < case_fold(b) THEN -1
    ELSE IF case_fold(a) = case_fold(b) THEN 0
    ELSE 1

\* a length test that lets every name through
name_too_long_never(name) == FALSE

\* name.size() > MAX_FILENAME_LENGTH, the test at the head of get_entry,
\* add_entry and remove_entry
name_too_long(name) == name_size(name) > MAX_FILENAME_LENGTH

\* ----------------------------------------------------------------- vectors
At(v, i) == v[i + 1]

Back(v) == v[Len(v)]

InsertAt(v, i, x) == SubSeq(v, 1, i) \o <<x>> \o SubSeq(v, i + 1, Len(v))

EraseAt(v, i) == SubSeq(v, 1, i) \o SubSeq(v, i + 2, Len(v))

PopBack(v) == SubSeq(v, 1, Len(v) - 1)

\* slice(c1, c2, index): c2 takes c1[index..], c1 keeps c1[0..index)
SliceKeep(c1, index) == SubSeq(c1, 1, index)

\* a slice that leaves the element at index behind
SliceMovedLate(c1, index) == SubSeq(c1, index + 2, Len(c1))

SliceMoved(c1, index) == SubSeq(c1, index + 1, Len(c1))

\* position of the first occurrence of x in v (std::find), Len(v) if none
RECURSIVE FindFrom(_, _, _)
FindFrom(v, x, i) ==
    IF i >= Len(v) THEN Len(v)
    ELSE IF At(v, i) = x THEN i
    ELSE FindFrom(v, x, i + 1)

Find(v, x) == FindFrom(v, x, 0)

\* std::lower_bound over the entries' filenames: the binary search of the
\* library, which is what decides the result on an unsorted vector too
RECURSIVE LowerBoundFrom(_, _, _, _)
LowerBoundFrom(es, name, first, count) ==
    IF count <= 0 THEN first
    ELSE LET step == count \div 2
             it == first + step
         IN IF At(es, it).filename < name
            THEN LowerBoundFrom(es, name, it + 1, count - (step + 1))
            ELSE LowerBoundFrom(es, name, first, step)

lower_bound(es, name) == LowerBoundFrom(es, name, 0, Len(es))

\* std::is_sorted: no element is smaller than its predecessor
is_sorted(es) == \A i \in 1 .. Len(es) - 1 : ~(es[i + 1].filename < es[i].filename)

\* ------------------------------------------------------------ paged stream
ZeroBlock == [flag |-> 0, next |-> 0, prev |-> 0, children |-> <<>>, entries |-> <<>>]

Throw(s, e) == IF s.err = "ok" THEN [s EXCEPT !.err = e] ELSE s

\* history: the rebalancing steps the running operation has taken
Mark(s, step) == [s EXCEPT !.did = @ \cup {step}]

stream_size(s) == Len(s.m_stream)
Pages(s) == 0 .. stream_size(s) - 1

\* StreamBase::resize, in blocks: truncation, or growth by zero blocks
resize(s, blocks) ==
    IF blocks <= Len(s.m_stream)
    THEN [s EXCEPT !.m_stream = SubSeq(@, 1, blocks)]
    ELSE [s EXCEPT !.m_stream = @ \o [i \in 1 .. blocks - Len(@) |-> ZeroBlock]]

\* StreamBase::write of one block at page num (the stream grows to hold it)
write_block(s, num, blk) ==
    LET g == IF num < Len(s.m_stream) THEN s ELSE resize(s, num + 1)
    IN [g EXCEPT !.m_stream[num + 1] = blk]

\* a full block can be read at page num
Readable(s, num) == num >= 0 /\ num < Len(s.m_stream)

\* ------------------------------------------------------ free-page allocator
\* read_free_page: [s, fp]; a short read or a non-zero flag is Corrupted
read_free_page(s, num) ==
    IF ~Readable(s, num) THEN [s |-> Throw(s, "Corrupted"), fp |-> ZeroBlock]
    ELSE IF At(s.m_stream, num).flag # 0
         THEN [s |-> Throw(s, "Corrupted"), fp |-> ZeroBlock]
         ELSE [s |-> s, fp |-> At(s.m_stream, num)]

write_free_page(s, num, next, prev) ==
    write_block(s, num, [ZeroBlock EXCEPT !.next = next, !.prev = prev])

\* allocate_page that leaves the new head's prev as it was
allocate_page_keep_prev(s) ==
    LET pop(r1) ==
            IF r1.s.err # "ok" THEN r1.s
            ELSE [Mark(s, "reuse") EXCEPT !.num_free_page = @ - 1,
                                          !.start_free_page = r1.fp.next]
    IN IF s.start_free_page = INVALID_PAGE
       THEN [s |-> Mark(resize(s, stream_size(s) + 1), "grow"), pg |-> stream_size(s)]
       ELSE [s |-> pop(read_free_page(s, s.start_free_page)),
             pg |-> s.start_free_page]

\* allocate_page that leaves num_free_page as it is
allocate_page_keep_count(s) ==
    LET unlink(s1, r2) ==
            IF r2.s.err # "ok" THEN r2.s
            ELSE write_free_page(s1, s1.start_free_page, r2.fp.next, INVALID_PAGE)
        behead(s1, next) ==
            IF next = INVALID_PAGE THEN s1
            ELSE unlink(s1, read_free_page(s1, next))
        pop(r1) ==
            IF r1.s.err # "ok" THEN r1.s
            ELSE behead([Mark(s, "reuse") EXCEPT !.start_free_page = r1.fp.next],
                        r1.fp.next)
    IN IF s.start_free_page = INVALID_PAGE
       THEN [s |-> Mark(resize(s, stream_size(s) + 1), "grow"), pg |-> stream_size(s)]
       ELSE [s |-> pop(read_free_page(s, s.start_free_page)),
             pg |-> s.start_free_page]

\* allocate_page that extends the stream by two blocks
allocate_page_grow_two(s) ==
    LET unlink(s1, r2) ==
            IF r2.s.err # "ok" THEN r2.s
            ELSE write_free_page(s1, s1.start_free_page, r2.fp.next, INVALID_PAGE)
        behead(s1, next) ==
            IF next = INVALID_PAGE THEN s1
            ELSE unlink(s1, read_free_page(s1, next))
        pop(r1) ==
            IF r1.s.err # "ok" THEN r1.s
            ELSE behead([Mark(s, "reuse") EXCEPT !.num_free_page = @ - 1,
                                                 !.start_free_page = r1.fp.next],
                        r1.fp.next)
    IN IF s.start_free_page = INVALID_PAGE
       THEN [s |-> Mark(resize(s, stream_size(s) + 2), "grow"), pg |-> stream_size(s)]
       ELSE [s |-> pop(read_free_page(s, s.start_free_page)),
             pg |-> s.start_free_page]

\* allocate_page: [s, pg].  The stream grows by one page, or the head of the
\* free list is taken (pop, r1 the head as read) and the page behind it
\* becomes the head (unlink, r2 that page as read).
allocate_page(s) ==
    LET unlink(s1, r2) ==
            IF r2.s.err # "ok" THEN r2.s
            ELSE write_free_page(s1, s1.start_free_page, r2.fp.next, INVALID_PAGE)
        behead(s1, next) ==
            IF next = INVALID_PAGE THEN s1
            ELSE unlink(s1, read_free_page(s1, next))
        pop(r1) ==
            IF r1.s.err # "ok" THEN r1.s
            ELSE behead([Mark(s, "reuse") EXCEPT !.num_free_page = @ - 1,
                                                 !.start_free_page = r1.fp.next],
                        r1.fp.next)
    IN IF s.start_free_page = INVALID_PAGE
       THEN [s |-> Mark(resize(s, stream_size(s) + 1), "grow"), pg |-> stream_size(s)]
       ELSE [s |-> pop(read_free_page(s, s.start_free_page)),
             pg |-> s.start_free_page]

\* deallocate_page that does not set the old head's prev
deallocate_page_no_back_link(s, num) ==
    LET push(s2) ==
            IF s2.err # "ok" THEN s2
            ELSE [Mark(s2, "push") EXCEPT !.start_free_page = num,
                                          !.num_free_page = @ + 1]
    IN IF num = stream_size(s)
       THEN Mark(resize(s, IF num >= 1 THEN num - 1 ELSE 0), "shrink")
       ELSE push(write_free_page(s, num, s.start_free_page, INVALID_PAGE))

\* deallocate_page whose test finds the top page of the stream, with the
\* shrink to (num - 1) blocks
deallocate_page_shrink_top(s, num) ==
    LET link(s1, r) ==
            IF r.s.err # "ok" THEN r.s
            ELSE write_free_page(s1, s.start_free_page, r.fp.next, num)
        back_link(s1) ==
            IF s.start_free_page = INVALID_PAGE THEN s1
            ELSE link(s1, read_free_page(s1, s.start_free_page))
        push(s2) ==
            IF s2.err # "ok" THEN s2
            ELSE [Mark(s2, "push") EXCEPT !.start_free_page = num,
                                          !.num_free_page = @ + 1]
    IN IF num + 1 = stream_size(s)
       THEN Mark(resize(s, IF num >= 1 THEN num - 1 ELSE 0), "shrink")
       ELSE push(back_link(write_free_page(s, num, s.start_free_page, INVALID_PAGE)))

\* deallocate_page that writes the freed page without a next page
deallocate_page_no_next(s, num) ==
    LET link(s1, r) ==
            IF r.s.err # "ok" THEN r.s
            ELSE write_free_page(s1, s.start_free_page, r.fp.next, num)
        back_link(s1) ==
            IF s.start_free_page = INVALID_PAGE THEN s1
            ELSE link(s1, read_free_page(s1, s.start_free_page))
        push(s2) ==
            IF s2.err # "ok" THEN s2
            ELSE [Mark(s2, "push") EXCEPT !.start_free_page = num,
                                          !.num_free_page = @ + 1]
    IN IF num = stream_size(s)
       THEN Mark(resize(s, IF num >= 1 THEN num - 1 ELSE 0), "shrink")
       ELSE push(back_link(write_free_page(s, num, INVALID_PAGE, INVALID_PAGE)))

\* deallocate_page.  The test compares the page's offset with the size of
\* the stream, and the shrink is to (num - 1) blocks, as written.  Else the
\* page is written as the new head, the old head (r, as read) gets it as
\* its prev (link), and the header scalars follow (push).
deallocate_page(s, num) ==
    LET link(s1, r) ==
            IF r.s.err # "ok" THEN r.s
            ELSE write_free_page(s1, s.start_free_page, r.fp.next, num)
        back_link(s1) ==
            IF s.start_free_page = INVALID_PAGE THEN s1
            ELSE link(s1, read_free_page(s1, s.start_free_page))
        push(s2) ==
            IF s2.err # "ok" THEN s2
            ELSE [Mark(s2, "push") EXCEPT !.start_free_page = num,
                                          !.num_free_page = @ + 1]
    IN IF num = stream_size(s)
       THEN Mark(resize(s, IF num >= 1 THEN num - 1 ELSE 0), "shrink")
       ELSE push(back_link(write_free_page(s, num, s.start_free_page, INVALID_PAGE)))

\* -------------------------------------------------------------- node cache
\* retrieve_existing_node's null pointer
nullptr == -2

\* BtreeNode(parent, num): no entries, no children, clean
NewNode(parent) == [parent_page_number |-> parent, entries |-> <<>>,
                    children |-> <<>>, dirty |-> FALSE]

is_leaf(node) == node.children = <<>>

Resident(s, num) == num \in DOMAIN s.m_node_cache

NodeAt(s, num) == s.m_node_cache[num]

\* mutable_entries() / mutable_children(): the node becomes dirty
SetEntries(s, num, es) ==
    [s EXCEPT !.m_node_cache[num].entries = es, !.m_node_cache[num].dirty = TRUE]

SetChildren(s, num, cs) ==
    [s EXCEPT !.m_node_cache[num].children = cs, !.m_node_cache[num].dirty = TRUE]

\* mutable_parent_page_number()
SetParent(s, num, parent) ==
    [s EXCEPT !.m_node_cache[num].parent_page_number = parent]

\* BtreeNode::from_buffer after read_node's read: a block whose flag is 0
\* leaves the node empty, any other block is decoded as a node
from_buffer(node, blk) ==
    IF blk.flag = 0 THEN node
    ELSE [node EXCEPT !.children = blk.children, !.entries = blk.entries]

\* BtreeNode::to_buffer
to_buffer(node) ==
    [flag |-> 1, next |-> 0, prev |-> 0, children |-> node.children,
     entries |-> node.entries]

retrieve_existing_node(s, num) == IF Resident(s, num) THEN num ELSE nullptr

\* retrieve_node handing out a cached node whatever its parent
retrieve_node_unchecked(s, parent_num, num) ==
    IF s.err # "ok" THEN s
    ELSE IF Resident(s, num)
    THEN s
    ELSE IF num = INVALID_PAGE \/ ~Readable(s, num) THEN Throw(s, "Corrupted")
    ELSE [s EXCEPT !.m_node_cache =
              (num :> from_buffer(NewNode(parent_num), At(s.m_stream, num))) @@ @]

\* retrieve_node(parent_num, num): the directory with page num resident
retrieve_node(s, parent_num, num) ==
    IF s.err # "ok" THEN s
    ELSE IF Resident(s, num)
    THEN IF parent_num = INVALID_PAGE \/ parent_num = NodeAt(s, num).parent_page_number
         THEN s
         ELSE Throw(s, "Corrupted")
    ELSE IF num = INVALID_PAGE \/ ~Readable(s, num) THEN Throw(s, "Corrupted")
    ELSE [s EXCEPT !.m_node_cache =
              (num :> from_buffer(NewNode(parent_num), At(s.m_stream, num))) @@ @]

\* get_root_node that writes the root back to its page
get_root_node_write_back(s) ==
    LET back(s1) ==
            IF s1.err # "ok" THEN s1
            ELSE write_block(s1, s.root_page, to_buffer(NodeAt(s1, s.root_page)))
    IN IF s.root_page = INVALID_PAGE THEN [s |-> s, n |-> nullptr]
       ELSE [s |-> back(retrieve_node(s, INVALID_PAGE, s.root_page)), n |-> s.root_page]

\* get_root_node: [s, n]
get_root_node(s) ==
    IF s.root_page = INVALID_PAGE THEN [s |-> s, n |-> nullptr]
    ELSE [s |-> retrieve_node(s, INVALID_PAGE, s.root_page), n |-> s.root_page]

\* adjust_children_in_cache that updates no child
adjust_children_in_cache_none(s, n, parent) == s

\* adjust_children_in_cache(n, parent): every resident child of n gets parent
adjust_children_in_cache(s, n, parent) ==
    [s EXCEPT !.m_node_cache =
        [p \in DOMAIN @ |->
            IF \E i \in 1 .. Len(NodeAt(s, n).children) : NodeAt(s, n).children[i] = p
            THEN [@[p] EXCEPT !.parent_page_number = parent]
            ELSE @[p]]]

\* del_node that drops the node from the cache and keeps its page
del_node_keep_page(s, n) ==
    IF n = nullptr \/ s.err # "ok" THEN s
    ELSE [s EXCEPT !.m_node_cache = [p \in (DOMAIN @) \ {n} |-> @[p]]]

\* del_node: the page is deallocated and the node leaves the cache
del_node(s, n) ==
    LET erase(s1) ==
            IF s1.err # "ok" THEN s1
            ELSE [s1 EXCEPT !.m_node_cache = [p \in (DOMAIN @) \ {n} |-> @[p]]]
    IN IF n = nullptr THEN s ELSE erase(deallocate_page(s, n))

\* write_node: the encoding of the node goes to its page.  m_stream->write
\* may throw: s.io is the page whose write the stream refuses in this call
\* (INVALID_PAGE: none).
write_node(s, num, node) ==
    IF num = INVALID_PAGE THEN Throw(s, "Corrupted")
    ELSE IF num = s.io THEN Throw(s, "IOError")
    ELSE write_block(s, num, to_buffer(node))

\* flush_cache: every dirty node of the cache is written and becomes clean;
\* the loop over the cache, todo the pages it has still to visit
RECURSIVE flush_loop(_, _)
flush_loop(s, todo) ==
    LET written(s1, num) == [s1 EXCEPT !.m_node_cache[num].dirty = FALSE]
        visit(num) ==
            IF NodeAt(s, num).dirty
            THEN flush_loop(written(Mark(write_node(s, num, NodeAt(s, num)),
                                         "write_node"), num),
                            todo \ {num})
            ELSE flush_loop(s, todo \ {num})
    IN IF s.err # "ok" \/ todo = {} THEN s
       ELSE visit(CHOOSE num \in todo : \A other \in todo : num <= other)

flush_cache(s) == flush_loop(s, DOMAIN s.m_node_cache)

\* clear_cache: m_node_cache.clear()
clear_cache(s) == [Mark(s, "clear") EXCEPT !.m_node_cache = <<>>]

\* a destructor that lets the exception of the flush out
destructor_rethrow(s) ==
    [Mark(flush_cache(s), "destroyed") EXCEPT !.m_node_cache = <<>>]

\* ~BtreeDirectory: try { flush_cache(); } catch (...) { }, then the
\* members, the cache among them, are gone
destructor(s) ==
    LET caught(r) == IF r.err # "ok" THEN [Mark(r, "swallowed") EXCEPT !.err = "ok"] ELSE r
    IN [Mark(caught(flush_cache(s)), "destroyed") EXCEPT !.m_node_cache = <<>>]

\* ------------------------------------------------------------------- find
\* find_node: [s, node, index, found]; the loop body from iteration i on,
\* it the lower bound of name among the entries of node
RECURSIVE find_loop(_, _, _, _)
find_loop(s, n, name, i) ==
    LET look(node, it) ==
            IF it # Len(node.entries) /\ name = At(node.entries, it).filename
            THEN [s |-> s, node |-> n, index |-> it, found |-> TRUE]
            ELSE IF is_leaf(node)
            THEN [s |-> s, node |-> n, index |-> it, found |-> FALSE]
            ELSE IF it >= Len(node.children)
            THEN [s |-> Throw(s, "OutOfRange"), node |-> nullptr, index |-> 0,
                  found |-> FALSE]
            ELSE find_loop(retrieve_node(s, n, At(node.children, it)),
                           At(node.children, it), name, i + 1)
    IN IF s.err # "ok"
       THEN [s |-> s, node |-> nullptr, index |-> 0, found |-> FALSE]
       ELSE IF i >= BTREE_MAX_DEPTH
       THEN [s |-> Throw(s, "Corrupted"), node |-> nullptr, index |-> 0,
             found |-> FALSE]
       ELSE look(NodeAt(s, n), lower_bound(NodeAt(s, n).entries, name))

find_node(s, name) ==
    LET from(r) ==
            IF r.n = nullptr \/ r.s.err # "ok"
            THEN [s |-> r.s, node |-> nullptr, index |-> 0, found |-> FALSE]
            ELSE find_loop(r.s, r.n, name, 0)
    IN from(get_root_node(s))

\* get_entry: [s, ret, id, type]
get_entry(s, name) ==
    LET hit(f, e) ==
            IF name = e.filename
            THEN [s |-> f.s, ret |-> TRUE, id |-> e.id, type |-> e.type]
            ELSE [s |-> f.s, ret |-> FALSE, id |-> 0, type |-> 0]
        found(f) ==
            IF f.s.err # "ok" \/ ~f.found \/ f.node = nullptr
            THEN [s |-> f.s, ret |-> FALSE, id |-> 0, type |-> 0]
            ELSE hit(f, At(NodeAt(f.s, f.node).entries, f.index))
    IN IF s.err = "ok" /\ name_too_long(name)
       THEN [s |-> Throw(s, "NameTooLong"), ret |-> FALSE, id |-> 0, type |-> 0]
       ELSE found(find_node(s, name))

\* ----------------------------------------------------------------- insert
RECURSIVE insert_and_balance(_, _, _, _, _)
\* the overflow branch without the slice of the children
split_node_keep_children(s, n, depth) ==
    LET new_root(s5, e, sibling, new_root_page) ==
            IF s5.err # "ok" THEN s5
            ELSE SetParent(
                     SetParent(
                         [Mark(SetEntries(
                                   SetChildren(s5, new_root_page,
                                       NodeAt(s5, new_root_page).children
                                           \o <<n, sibling>>),
                                   new_root_page,
                                   Append(NodeAt(s5, new_root_page).entries, e)),
                               "new_root")
                             EXCEPT !.root_page = new_root_page],
                         n, new_root_page),
                     sibling, new_root_page)
        grow(b, e, sibling) ==
            new_root(retrieve_node(b.s, INVALID_PAGE, b.pg), e, sibling, b.pg)
        promote(s4, e, sibling) ==
            IF NodeAt(s4, n).parent_page_number = INVALID_PAGE
            THEN grow(allocate_page(s4), e, sibling)
            ELSE insert_and_balance(
                     s4, retrieve_existing_node(s4, NodeAt(s4, n).parent_page_number),
                     e, sibling, depth + 1)
        slice_children(s1, sibling, node, middle_index) ==
            IF is_leaf(node) THEN Mark(s1, "split_leaf")
            ELSE Mark(s1, "split_internal")
        slice_entries(s2, sibling, node, middle_index) ==
            SetEntries(
                SetEntries(s2, sibling, SliceMoved(node.entries, middle_index + 1)),
                n, PopBack(SliceKeep(node.entries, middle_index + 1)))
        divide(s1, sibling, node, middle_index) ==
            promote(slice_entries(slice_children(s1, sibling, node, middle_index),
                                  sibling, node, middle_index),
                    At(node.entries, middle_index), sibling)
        with_sibling(s1, sibling) ==
            IF s1.err # "ok" THEN s1
            ELSE divide(s1, sibling, NodeAt(s1, n),
                        Len(NodeAt(s1, n).entries) \div 2 - 1)
        allocated(a) ==
            with_sibling(retrieve_node(a.s, NodeAt(s, n).parent_page_number, a.pg),
                         a.pg)
    IN allocated(allocate_page(s))

\* insert_and_balance's overflow branch: n holds more than max entries.
\* A sibling page is allocated and made resident (allocated, with_sibling),
\* it takes the children and the entries behind the middle (slice_children,
\* slice_entries), and the middle entry e moves up (promote): into the
\* parent, or into a new root (grow, new_root).
split_node(s, n, depth) ==
    LET new_root(s5, e, sibling, new_root_page) ==
            IF s5.err # "ok" THEN s5
            ELSE SetParent(
                     SetParent(
                         [Mark(SetEntries(
                                   SetChildren(s5, new_root_page,
                                       NodeAt(s5, new_root_page).children
                                           \o <<n, sibling>>),
                                   new_root_page,
                                   Append(NodeAt(s5, new_root_page).entries, e)),
                               "new_root")
                             EXCEPT !.root_page = new_root_page],
                         n, new_root_page),
                     sibling, new_root_page)
        grow(b, e, sibling) ==
            new_root(retrieve_node(b.s, INVALID_PAGE, b.pg), e, sibling, b.pg)
        promote(s4, e, sibling) ==
            IF NodeAt(s4, n).parent_page_number = INVALID_PAGE
            THEN grow(allocate_page(s4), e, sibling)
            ELSE insert_and_balance(
                     s4, retrieve_existing_node(s4, NodeAt(s4, n).parent_page_number),
                     e, sibling, depth + 1)
        slice_children(s1, sibling, node, middle_index) ==
            IF is_leaf(node) THEN Mark(s1, "split_leaf")
            ELSE adjust_children_in_cache(
                     SetChildren(
                         SetChildren(Mark(s1, "split_internal"), sibling,
                                     SliceMoved(node.children, middle_index + 1)),
                         n, SliceKeep(node.children, middle_index + 1)),
                     sibling, sibling)
        slice_entries(s2, sibling, node, middle_index) ==
            SetEntries(
                SetEntries(s2, sibling, SliceMoved(node.entries, middle_index + 1)),
                n, PopBack(SliceKeep(node.entries, middle_index + 1)))
        divide(s1, sibling, node, middle_index) ==
            promote(slice_entries(slice_children(s1, sibling, node, middle_index),
                                  sibling, node, middle_index),
                    At(node.entries, middle_index), sibling)
        with_sibling(s1, sibling) ==
            IF s1.err # "ok" THEN s1
            ELSE divide(s1, sibling, NodeAt(s1, n),
                        Len(NodeAt(s1, n).entries) \div 2 - 1)
        allocated(a) ==
            with_sibling(retrieve_node(a.s, NodeAt(s, n).parent_page_number, a.pg),
                         a.pg)
    IN allocated(allocate_page(s))

\* it: the lower bound of e among the entries of node
insert_and_balance(s, n, e, additional_child, depth) ==
    LET overflow(s2) ==
            IF Len(NodeAt(s2, n).entries) > s.max THEN split_node(s2, n, depth)
            ELSE s2
        insert(node, it, with_child) ==
            IF with_child /\ it + 1 > Len(node.children) THEN Throw(s, "UB")
            ELSE overflow(
                     SetEntries(
                         IF with_child
                         THEN SetChildren(s, n, InsertAt(node.children, it + 1,
                                                         additional_child))
                         ELSE s,
                         n, InsertAt(node.entries, it, e)))
    IN IF s.err # "ok" THEN s
       ELSE IF n = nullptr THEN Throw(s, "UB")
       ELSE IF ~(depth < BTREE_MAX_DEPTH) THEN Throw(s, "Corrupted")
       ELSE insert(NodeAt(s, n), lower_bound(NodeAt(s, n).entries, e.filename),
                   additional_child # INVALID_PAGE /\ ~is_leaf(NodeAt(s, n)))

\* add_entry storing the new id and type over an entry it finds
add_entry_overwrite(s, name, id, type) ==
    LET e == [filename |-> name, id |-> id, type |-> type]
        first(r) ==
            IF r.s.err # "ok" THEN [s |-> r.s, ret |-> FALSE]
            ELSE [s |-> SetEntries(r.s, r.n, Append(NodeAt(r.s, r.n).entries, e)),
                  ret |-> TRUE]
        plant(a) ==
            IF a.s.err # "ok" THEN [s |-> a.s, ret |-> FALSE]
            ELSE first(get_root_node([a.s EXCEPT !.root_page = a.pg]))
        balanced(s1) == [s |-> s1, ret |-> s1.err = "ok"]
        place(f) ==
            IF f.s.err # "ok" THEN [s |-> f.s, ret |-> FALSE]
            ELSE IF f.found
                 THEN [s |-> SetEntries(f.s, f.node,
                                 [NodeAt(f.s, f.node).entries
                                      EXCEPT ![f.index + 1] = e]),
                       ret |-> FALSE]
            ELSE IF f.node = nullptr THEN plant(allocate_page(f.s))
            ELSE balanced(insert_and_balance(f.s, f.node, e, INVALID_PAGE, 0))
    IN place(find_node(s, name))

\* add_entry: [s, ret]; f what find_node found, a the page allocated for the
\* first root, r that root
add_entry(s, name, id, type) ==
    LET e == [filename |-> name, id |-> id, type |-> type]
        first(r) ==
            IF r.s.err # "ok" THEN [s |-> r.s, ret |-> FALSE]
            ELSE [s |-> SetEntries(r.s, r.n, Append(NodeAt(r.s, r.n).entries, e)),
                  ret |-> TRUE]
        plant(a) ==
            IF a.s.err # "ok" THEN [s |-> a.s, ret |-> FALSE]
            ELSE first(get_root_node([a.s EXCEPT !.root_page = a.pg]))
        balanced(s1) == [s |-> s1, ret |-> s1.err = "ok"]
        place(f) ==
            IF f.s.err # "ok" THEN [s |-> f.s, ret |-> FALSE]
            ELSE IF f.found THEN [s |-> f.s, ret |-> FALSE]
            ELSE IF f.node = nullptr THEN plant(allocate_page(f.s))
            ELSE balanced(insert_and_balance(f.s, f.node, e, INVALID_PAGE, 0))
    IN IF s.err = "ok" /\ name_too_long(name)
       THEN [s |-> Throw(s, "NameTooLong"), ret |-> FALSE]
       ELSE place(find_node(s, name))

\* ----------------------------------------------------------------- remove
\* replace_with_sub_entry's descent to the rightmost leaf below lchild:
\*     while (!lchild->is_leaf())
\*         lchild = retrieve_node(lchild->page_number(), lchild->children().back());
\* The loop has no counter.  seen holds the nodes the loop has left: when
\* retrieve_node hands out one of them again, every node of the round is
\* resident and passes the parent check as it did before, so the loop goes
\* round for ever; err = "Hang" records the call that never returns.
RECURSIVE rightmost_leaf(_, _, _)
rightmost_leaf(s, lchild, seen) ==
    LET step(s1, child) ==
            IF s1.err = "ok" /\ child \in seen \cup {lchild}
            THEN [s |-> Throw(s1, "Hang"), n |-> nullptr]
            ELSE rightmost_leaf(s1, child, seen \cup {lchild})
        next(child) == step(retrieve_node(s, lchild, child), child)
    IN IF s.err # "ok" THEN [s |-> s, n |-> nullptr]
       ELSE IF is_leaf(NodeAt(s, lchild)) THEN [s |-> s, n |-> lchild]
       ELSE next(Back(NodeAt(s, lchild).children))

\* replace_with_sub_entry that leaves the predecessor in its leaf
replace_with_sub_entry_keep(s, n, index, depth) ==
    LET pop_back(s1, leaf) == s1
        swap(r) ==
            IF r.s.err # "ok" THEN [s |-> r.s, n |-> nullptr]
            ELSE IF NodeAt(r.s, r.n).entries = <<>>
            THEN [s |-> Throw(r.s, "UB"), n |-> nullptr]
            ELSE [s |-> pop_back(
                            SetEntries(Mark(r.s, "predecessor"), n,
                                [NodeAt(r.s, n).entries
                                    EXCEPT ![index + 1] = Back(NodeAt(r.s, r.n).entries)]),
                            r.n),
                  n |-> r.n]
        descend(lchild) == swap(rightmost_leaf(retrieve_node(s, n, lchild), lchild, {}))
    IN IF ~(depth < BTREE_MAX_DEPTH) THEN [s |-> Throw(s, "Corrupted"), n |-> nullptr]
       ELSE IF is_leaf(NodeAt(s, n))
       THEN [s |-> SetEntries(s, n, EraseAt(NodeAt(s, n).entries, index)), n |-> n]
       ELSE IF index >= Len(NodeAt(s, n).children)
       THEN [s |-> Throw(s, "OutOfRange"), n |-> nullptr]
       ELSE descend(At(NodeAt(s, n).children, index))

\* replace_with_sub_entry: [s, n], n the leaf that lost an entry; r the
\* rightmost leaf below the child left of the entry
replace_with_sub_entry(s, n, index, depth) ==
    LET pop_back(s1, leaf) == SetEntries(s1, leaf, PopBack(NodeAt(s1, leaf).entries))
        swap(r) ==
            IF r.s.err # "ok" THEN [s |-> r.s, n |-> nullptr]
            ELSE IF NodeAt(r.s, r.n).entries = <<>>
            THEN [s |-> Throw(r.s, "UB"), n |-> nullptr]
            ELSE [s |-> pop_back(
                            SetEntries(Mark(r.s, "predecessor"), n,
                                [NodeAt(r.s, n).entries
                                    EXCEPT ![index + 1] = Back(NodeAt(r.s, r.n).entries)]),
                            r.n),
                  n |-> r.n]
        descend(lchild) == swap(rightmost_leaf(retrieve_node(s, n, lchild), lchild, {}))
    IN IF ~(depth < BTREE_MAX_DEPTH) THEN [s |-> Throw(s, "Corrupted"), n |-> nullptr]
       ELSE IF is_leaf(NodeAt(s, n))
       THEN [s |-> SetEntries(s, n, EraseAt(NodeAt(s, n).entries, index)), n |-> n]
       ELSE IF index >= Len(NodeAt(s, n).children)
       THEN [s |-> Throw(s, "OutOfRange"), n |-> nullptr]
       ELSE descend(At(NodeAt(s, n).children, index))

\* find_sibling: [s, index, sibling]
find_sibling(s, parent, node) ==
    LET bad(e) == [s |-> Throw(s, e), index |-> 0, sibling |-> nullptr]
        pick(child_indices, index) ==
            IF index = Len(child_indices) THEN bad("Corrupted")
            ELSE IF index + 1 = Len(child_indices)
            THEN IF index - 1 < 0 THEN bad("OutOfRange")
                 ELSE [s |-> retrieve_node(s, parent, At(child_indices, index - 1)),
                       index |-> index - 1, sibling |-> At(child_indices, index - 1)]
            ELSE [s |-> retrieve_node(s, parent, At(child_indices, index + 1)),
                  index |-> index, sibling |-> At(child_indices, index + 1)]
    IN IF parent # NodeAt(s, node).parent_page_number THEN bad("Corrupted")
       ELSE pick(NodeAt(s, parent).children, Find(NodeAt(s, parent).children, node))

\* rotate that does not overwrite the separator of the parent
rotate_keep_separator(s, left, right, parent, entry_index) ==
    LET share_entries(temp_entries, middle) ==
            SetEntries(
                SetEntries(
                    Mark(s, IF is_leaf(NodeAt(s, left)) THEN "rotate_leaf"
                            ELSE "rotate_internal"),
                    left, SubSeq(temp_entries, 1, middle)),
                right, SubSeq(temp_entries, middle + 2, Len(temp_entries)))
        share_children(s3, temp_children, middle) ==
            IF middle + 1 > Len(temp_children) THEN Throw(s3, "UB")
            ELSE adjust_children_in_cache(
                     adjust_children_in_cache(
                         SetChildren(
                             SetChildren(s3, left, SubSeq(temp_children, 1, middle + 1)),
                             right,
                             SubSeq(temp_children, middle + 2, Len(temp_children))),
                         left, left),
                     right, right)
        share(s3, l, r, middle) ==
            IF l.children # <<>> /\ r.children # <<>>
            THEN share_children(s3, l.children \o r.children, middle)
            ELSE s3
        steal(l, r, temp_entries) ==
            share(share_entries(temp_entries, Len(temp_entries) \div 2), l, r,
                  Len(temp_entries) \div 2)
    IN IF entry_index >= Len(NodeAt(s, parent).entries) THEN Throw(s, "OutOfRange")
       ELSE steal(NodeAt(s, left), NodeAt(s, right),
                  NodeAt(s, left).entries
                      \o <<At(NodeAt(s, parent).entries, entry_index)>>
                      \o NodeAt(s, right).entries)

\* rotate(left, right, parent->mutable_entries().at(entry_index)): the
\* entries of left, the separator and the entries of right are dealt out
\* again around the middle (share_entries), and so are the children
rotate(s, left, right, parent, entry_index) ==
    LET share_entries(temp_entries, middle) ==
            SetEntries(
                SetEntries(
                    SetEntries(Mark(s, IF is_leaf(NodeAt(s, left)) THEN "rotate_leaf"
                                       ELSE "rotate_internal"),
                               parent,
                               [NodeAt(s, parent).entries
                                   EXCEPT ![entry_index + 1] = At(temp_entries, middle)]),
                    left, SubSeq(temp_entries, 1, middle)),
                right, SubSeq(temp_entries, middle + 2, Len(temp_entries)))
        share_children(s3, temp_children, middle) ==
            IF middle + 1 > Len(temp_children) THEN Throw(s3, "UB")
            ELSE adjust_children_in_cache(
                     adjust_children_in_cache(
                         SetChildren(
                             SetChildren(s3, left, SubSeq(temp_children, 1, middle + 1)),
                             right,
                             SubSeq(temp_children, middle + 2, Len(temp_children))),
                         left, left),
                     right, right)
        share(s3, l, r, middle) ==
            IF l.children # <<>> /\ r.children # <<>>
            THEN share_children(s3, l.children \o r.children, middle)
            ELSE s3
        steal(l, r, temp_entries) ==
            share(share_entries(temp_entries, Len(temp_entries) \div 2), l, r,
                  Len(temp_entries) \div 2)
    IN IF entry_index >= Len(NodeAt(s, parent).entries) THEN Throw(s, "OutOfRange")
       ELSE steal(NodeAt(s, left), NodeAt(s, right),
                  NodeAt(s, left).entries
                      \o <<At(NodeAt(s, parent).entries, entry_index)>>
                      \o NodeAt(s, right).entries)

\* merge that does not move the children of right into left
merge_drop_children(s, left, right, parent, entry_index) ==
    LET steal_children(s5) ==
            s5
        steal_entries(s3) ==
            SetEntries(
                SetEntries(s3, left, NodeAt(s3, left).entries
                                         \o NodeAt(s3, right).entries),
                right, NodeAt(s3, right).entries)
        unhook(s2, p, at) ==
            IF at = Len(p.children) THEN Throw(s2, "UB")
            ELSE del_node(
                     steal_children(
                         adjust_children_in_cache(
                             steal_entries(SetChildren(s2, parent,
                                                       EraseAt(p.children, at))),
                             right, left)),
                     right)
        pull(p) ==
            unhook(SetEntries(
                       SetEntries(Mark(s, IF is_leaf(NodeAt(s, left)) THEN "merge_leaf"
                                          ELSE "merge_internal"),
                                  left,
                                  Append(NodeAt(s, left).entries,
                                         At(p.entries, entry_index))),
                       parent, EraseAt(p.entries, entry_index)),
                   p, Find(p.children, right))
    IN IF entry_index >= Len(NodeAt(s, parent).entries) THEN Throw(s, "OutOfRange")
       ELSE pull(NodeAt(s, parent))

\* merge that also drops the parent from the cache
merge_drop_parent(s, left, right, parent, entry_index) ==
    LET steal_children(s5) ==
            SetChildren(
                SetChildren(s5, left, NodeAt(s5, left).children
                                          \o NodeAt(s5, right).children),
                right, NodeAt(s5, right).children)
        steal_entries(s3) ==
            SetEntries(
                SetEntries(s3, left, NodeAt(s3, left).entries
                                         \o NodeAt(s3, right).entries),
                right, NodeAt(s3, right).entries)
        unhook(s2, p, at) ==
            IF at = Len(p.children) THEN Throw(s2, "UB")
            ELSE del_node_keep_page(
                     del_node(
                         steal_children(
                             adjust_children_in_cache(
                                 steal_entries(SetChildren(s2, parent,
                                                           EraseAt(p.children, at))),
                                 right, left)),
                         right),
                     parent)
        pull(p) ==
            unhook(SetEntries(
                       SetEntries(Mark(s, IF is_leaf(NodeAt(s, left)) THEN "merge_leaf"
                                          ELSE "merge_internal"),
                                  left,
                                  Append(NodeAt(s, left).entries,
                                         At(p.entries, entry_index))),
                       parent, EraseAt(p.entries, entry_index)),
                   p, Find(p.children, right))
    IN IF entry_index >= Len(NodeAt(s, parent).entries) THEN Throw(s, "OutOfRange")
       ELSE pull(NodeAt(s, parent))

\* merge(left, right, parent, entry_index): the separator comes down into
\* left (pull), right leaves the children of the parent and left takes its
\* entries and children (unhook), right is deleted
merge(s, left, right, parent, entry_index) ==
    LET steal_children(s5) ==
            SetChildren(
                SetChildren(s5, left, NodeAt(s5, left).children
                                          \o NodeAt(s5, right).children),
                right, NodeAt(s5, right).children)
        steal_entries(s3) ==
            SetEntries(
                SetEntries(s3, left, NodeAt(s3, left).entries
                                         \o NodeAt(s3, right).entries),
                right, NodeAt(s3, right).entries)
        unhook(s2, p, at) ==
            IF at = Len(p.children) THEN Throw(s2, "UB")
            ELSE del_node(
                     steal_children(
                         adjust_children_in_cache(
                             steal_entries(SetChildren(s2, parent,
                                                       EraseAt(p.children, at))),
                             right, left)),
                     right)
        pull(p) ==
            unhook(SetEntries(
                       SetEntries(Mark(s, IF is_leaf(NodeAt(s, left)) THEN "merge_leaf"
                                          ELSE "merge_internal"),
                                  left,
                                  Append(NodeAt(s, left).entries,
                                         At(p.entries, entry_index))),
                       parent, EraseAt(p.entries, entry_index)),
                   p, Find(p.children, right))
    IN IF entry_index >= Len(NodeAt(s, parent).entries) THEN Throw(s, "OutOfRange")
       ELSE pull(NodeAt(s, parent))

RECURSIVE balance_up(_, _, _)

\* balance_up rebalancing every node below half of the limit, rounded up
balance_up_eager(s, n, depth) ==
    LET fix(s1, parent, entry_index, left, right) ==
            IF Len(NodeAt(s1, left).entries) + Len(NodeAt(s1, right).entries) < s1.max
            THEN merge(s1, left, right, parent, entry_index)
            ELSE rotate(s1, left, right, parent, entry_index)
        order(s1, parent, sibling, entry_index, defined, less) ==
            IF ~defined /\ s1.ub = "crash" THEN Throw(s1, "UB")
            ELSE balance_up(fix(s1, parent, entry_index,
                                IF less THEN n ELSE sibling,
                                IF less THEN sibling ELSE n),
                            parent, depth + 1)
        compare(s1, parent, sibling, entry_index, defined) ==
            order(s1, parent, sibling, entry_index, defined,
                  IF defined
                  THEN Back(NodeAt(s1, n).entries).filename
                           < NodeAt(s1, sibling).entries[1].filename
                  ELSE s1.ub = "lt")
        with_sibling(fs, parent) ==
            IF fs.s.err # "ok" THEN fs.s
            ELSE compare(fs.s, parent, fs.sibling, fs.index,
                         NodeAt(fs.s, n).entries # <<>>
                             /\ NodeAt(fs.s, fs.sibling).entries # <<>>)
        under(parent) ==
            IF parent = nullptr THEN Throw(s, "Corrupted")
            ELSE with_sibling(find_sibling(s, parent, n), parent)
        balance(node) ==
            IF node.parent_page_number = INVALID_PAGE /\ node.entries = <<>>
                  /\ node.children # <<>>
            THEN IF Len(node.children) # 1 THEN Throw(s, "Corrupted")
                 ELSE del_node(
                          [adjust_children_in_cache(Mark(s, "collapse"), n, INVALID_PAGE)
                              EXCEPT !.root_page = node.children[1]], n)
            ELSE IF node.parent_page_number = INVALID_PAGE
                    \/ Len(node.entries) >= (s.max + 1) \div 2
            THEN s
            ELSE under(retrieve_existing_node(s, node.parent_page_number))
    IN IF s.err # "ok" THEN s
       ELSE IF n = nullptr THEN Throw(s, "UB")
       ELSE IF ~(depth < BTREE_MAX_DEPTH) THEN Throw(s, "Corrupted")
       ELSE IF ~Resident(s, n) THEN Throw(s, "UB")
       ELSE balance(NodeAt(s, n))

\* balance_up merging also two nodes that hold the limit together
balance_up_merge_full(s, n, depth) ==
    LET fix(s1, parent, entry_index, left, right) ==
            IF Len(NodeAt(s1, left).entries) + Len(NodeAt(s1, right).entries) <= s1.max
            THEN merge(s1, left, right, parent, entry_index)
            ELSE rotate(s1, left, right, parent, entry_index)
        order(s1, parent, sibling, entry_index, defined, less) ==
            IF ~defined /\ s1.ub = "crash" THEN Throw(s1, "UB")
            ELSE balance_up(fix(s1, parent, entry_index,
                                IF less THEN n ELSE sibling,
                                IF less THEN sibling ELSE n),
                            parent, depth + 1)
        compare(s1, parent, sibling, entry_index, defined) ==
            order(s1, parent, sibling, entry_index, defined,
                  IF defined
                  THEN Back(NodeAt(s1, n).entries).filename
                           < NodeAt(s1, sibling).entries[1].filename
                  ELSE s1.ub = "lt")
        with_sibling(fs, parent) ==
            IF fs.s.err # "ok" THEN fs.s
            ELSE compare(fs.s, parent, fs.sibling, fs.index,
                         NodeAt(fs.s, n).entries # <<>>
                             /\ NodeAt(fs.s, fs.sibling).entries # <<>>)
        under(parent) ==
            IF parent = nullptr THEN Throw(s, "Corrupted")
            ELSE with_sibling(find_sibling(s, parent, n), parent)
        balance(node) ==
            IF node.parent_page_number = INVALID_PAGE /\ node.entries = <<>>
                  /\ node.children # <<>>
            THEN IF Len(node.children) # 1 THEN Throw(s, "Corrupted")
                 ELSE del_node(
                          [adjust_children_in_cache(Mark(s, "collapse"), n, INVALID_PAGE)
                              EXCEPT !.root_page = node.children[1]], n)
            ELSE IF node.parent_page_number = INVALID_PAGE
                    \/ Len(node.entries) >= s.max \div 2
            THEN s
            ELSE under(retrieve_existing_node(s, node.parent_page_number))
    IN IF s.err # "ok" THEN s
       ELSE IF n = nullptr THEN Throw(s, "UB")
       ELSE IF ~(depth < BTREE_MAX_DEPTH) THEN Throw(s, "Corrupted")
       ELSE IF ~Resident(s, n) THEN Throw(s, "UB")
       ELSE balance(NodeAt(s, n))

\* balance_up.  n->entries().back() and sibling->entries().front() on an
\* empty vector are undefined: s.ub is what the build makes of it, "crash",
\* or the comparison reading as true ("lt") or as false ("ge").
\* A node that del_node erased while a caller still holds its pointer (the
\* parent of a merge that was also the merged sibling, on a damaged stream)
\* is a dangling pointer: reading it is undefined too.
balance_up(s, n, depth) ==
    LET fix(s1, parent, entry_index, left, right) ==
            IF Len(NodeAt(s1, left).entries) + Len(NodeAt(s1, right).entries) < s1.max
            THEN merge(s1, left, right, parent, entry_index)
            ELSE rotate(s1, left, right, parent, entry_index)
        order(s1, parent, sibling, entry_index, defined, less) ==
            IF ~defined /\ s1.ub = "crash" THEN Throw(s1, "UB")
            ELSE balance_up(fix(s1, parent, entry_index,
                                IF less THEN n ELSE sibling,
                                IF less THEN sibling ELSE n),
                            parent, depth + 1)
        compare(s1, parent, sibling, entry_index, defined) ==
            order(s1, parent, sibling, entry_index, defined,
                  IF defined
                  THEN Back(NodeAt(s1, n).entries).filename
                           < NodeAt(s1, sibling).entries[1].filename
                  ELSE s1.ub = "lt")
        with_sibling(fs, parent) ==
            IF fs.s.err # "ok" THEN fs.s
            ELSE compare(fs.s, parent, fs.sibling, fs.index,
                         NodeAt(fs.s, n).entries # <<>>
                             /\ NodeAt(fs.s, fs.sibling).entries # <<>>)
        under(parent) ==
            IF parent = nullptr THEN Throw(s, "Corrupted")
            ELSE with_sibling(find_sibling(s, parent, n), parent)
        balance(node) ==
            IF node.parent_page_number = INVALID_PAGE /\ node.entries = <<>>
                  /\ node.children # <<>>
            THEN IF Len(node.children) # 1 THEN Throw(s, "Corrupted")
                 ELSE del_node(
                          [adjust_children_in_cache(Mark(s, "collapse"), n, INVALID_PAGE)
                              EXCEPT !.root_page = node.children[1]], n)
            ELSE IF node.parent_page_number = INVALID_PAGE
                    \/ Len(node.entries) >= s.max \div 2
            THEN s
            ELSE under(retrieve_existing_node(s, node.parent_page_number))
    IN IF s.err # "ok" THEN s
       ELSE IF n = nullptr THEN Throw(s, "UB")
       ELSE IF ~(depth < BTREE_MAX_DEPTH) THEN Throw(s, "Corrupted")
       ELSE IF ~Resident(s, n) THEN Throw(s, "UB")
       ELSE balance(NodeAt(s, n))

\* remove_entry giving up the root page when the last entry has gone
remove_entry_drop_root(s, name) ==
    LET drop(s1) ==
            IF s1.err = "ok" /\ Resident(s1, s1.root_page)
               /\ NodeAt(s1, s1.root_page).entries = <<>>
               /\ is_leaf(NodeAt(s1, s1.root_page))
            THEN [del_node(s1, s1.root_page) EXCEPT !.root_page = INVALID_PAGE]
            ELSE s1
        removed(s1, e) == [s |-> s1, ret |-> s1.err = "ok", id |-> e.id, type |-> e.type]
        rebalance(r, e) == removed(drop(balance_up(r.s, r.n, 0)), e)
        take(f) ==
            IF f.s.err # "ok" \/ ~f.found \/ f.node = nullptr
            THEN [s |-> f.s, ret |-> FALSE, id |-> 0, type |-> 0]
            ELSE rebalance(replace_with_sub_entry(f.s, f.node, f.index, 0),
                           At(NodeAt(f.s, f.node).entries, f.index))
    IN IF s.err = "ok" /\ name_too_long(name)
       THEN [s |-> Throw(s, "NameTooLong"), ret |-> FALSE, id |-> 0, type |-> 0]
       ELSE take(find_node(s, name))

\* remove_entry rebalancing from the node the entry was found in
remove_entry_from_found(s, name) ==
    LET removed(s1, e) == [s |-> s1, ret |-> s1.err = "ok", id |-> e.id, type |-> e.type]
        rebalance(r, f, e) == removed(balance_up(r.s, f.node, 0), e)
        take(f) ==
            IF f.s.err # "ok" \/ ~f.found \/ f.node = nullptr
            THEN [s |-> f.s, ret |-> FALSE, id |-> 0, type |-> 0]
            ELSE rebalance(replace_with_sub_entry(f.s, f.node, f.index, 0), f,
                           At(NodeAt(f.s, f.node).entries, f.index))
    IN IF s.err = "ok" /\ name_too_long(name)
       THEN [s |-> Throw(s, "NameTooLong"), ret |-> FALSE, id |-> 0, type |-> 0]
       ELSE take(find_node(s, name))

\* remove_entry taking the entry the search stopped at, equal or not
remove_entry_nearest(s, name) ==
    LET removed(s1, e) == [s |-> s1, ret |-> s1.err = "ok", id |-> e.id, type |-> e.type]
        rebalance(r, e) == removed(balance_up(r.s, r.n, 0), e)
        take(f) ==
            IF \/ f.s.err # "ok" \/ f.node = nullptr
               \/ f.index >= Len(NodeAt(f.s, f.node).entries)
            THEN [s |-> f.s, ret |-> FALSE, id |-> 0, type |-> 0]
            ELSE rebalance(replace_with_sub_entry(f.s, f.node, f.index, 0),
                           At(NodeAt(f.s, f.node).entries, f.index))
    IN take(find_node(s, name))

\* remove_entry: [s, ret, id, type]; e the entry found, r the leaf that
\* lost an entry
remove_entry(s, name) ==
    LET removed(s1, e) == [s |-> s1, ret |-> s1.err = "ok", id |-> e.id, type |-> e.type]
        rebalance(r, e) == removed(balance_up(r.s, r.n, 0), e)
        take(f) ==
            IF f.s.err # "ok" \/ ~f.found \/ f.node = nullptr
            THEN [s |-> f.s, ret |-> FALSE, id |-> 0, type |-> 0]
            ELSE rebalance(replace_with_sub_entry(f.s, f.node, f.index, 0),
                           At(NodeAt(f.s, f.node).entries, f.index))
    IN IF s.err = "ok" /\ name_too_long(name)
       THEN [s |-> Throw(s, "NameTooLong"), ret |-> FALSE, id |-> 0, type |-> 0]
       ELSE take(find_node(s, name))

\* ------------------------------------------------------- iterate, validate
\* recursive_iterate: [s, out], out the entries in the order the callback
\* receives them
RECURSIVE recursive_iterate(_, _, _)
RECURSIVE iterate_children(_, _, _, _)
\* the loop over the children that stops one child early
iterate_children_short(s, n, i, depth) ==
    LET join(r, rest) == [s |-> rest.s, out |-> r.out \o rest.out]
        next(r) == join(r, iterate_children(r.s, n, i + 1, depth))
        visit(c) == next(recursive_iterate(retrieve_node(s, n, c), c, depth + 1))
    IN IF s.err # "ok" \/ i + 1 >= Len(NodeAt(s, n).children) THEN [s |-> s, out |-> <<>>]
       ELSE visit(At(NodeAt(s, n).children, i))

\* the loop over the children of n from child i on
iterate_children(s, n, i, depth) ==
    LET join(r, rest) == [s |-> rest.s, out |-> r.out \o rest.out]
        next(r) == join(r, iterate_children(r.s, n, i + 1, depth))
        visit(c) == next(recursive_iterate(retrieve_node(s, n, c), c, depth + 1))
    IN IF s.err # "ok" \/ i >= Len(NodeAt(s, n).children) THEN [s |-> s, out |-> <<>>]
       ELSE visit(At(NodeAt(s, n).children, i))

recursive_iterate(s, n, depth) ==
    LET emit(r) == [s |-> r.s, out |-> NodeAt(s, n).entries \o r.out]
    IN IF s.err # "ok" THEN [s |-> s, out |-> <<>>]
       ELSE IF ~(depth < BTREE_MAX_DEPTH)
       THEN [s |-> Throw(s, "Corrupted"), out |-> <<>>]
       ELSE emit(iterate_children(s, n, 0, depth))

iterate_over_entries(s) ==
    LET from(r) ==
            IF r.n = nullptr \/ r.s.err # "ok" THEN [s |-> r.s, out |-> <<>>]
            ELSE recursive_iterate(r.s, r.n, 0)
    IN from(get_root_node(s))

\* validate_node: [s, ret].  The results of the recursive calls are dropped,
\* as in the source; back() / front() of an empty child is undefined.
RECURSIVE validate_node(_, _, _)
RECURSIVE validate_children(_, _, _, _)
\* the loop over the entries of n from entry i on
validate_children(s, n, i, depth) ==
    LET compare(s2, e, lchild, rchild) ==
            IF s2.err # "ok" THEN [s |-> s2, ret |-> FALSE]
            ELSE IF NodeAt(s2, lchild).entries = <<>> \/ NodeAt(s2, rchild).entries = <<>>
            THEN [s |-> Throw(s2, "UB"), ret |-> FALSE]
            ELSE IF e.filename < Back(NodeAt(s2, lchild).entries).filename
                    \/ NodeAt(s2, rchild).entries[1].filename < e.filename
            THEN [s |-> s2, ret |-> FALSE]
            ELSE validate_children(s2, n, i + 1, depth)
        descend(s1, e, lchild, rchild) ==
            compare(IF s1.err # "ok" THEN s1
                    ELSE validate_node(validate_node(s1, lchild, depth + 1).s,
                                       rchild, depth + 1).s,
                    e, lchild, rchild)
        pair(e, lchild, rchild) ==
            descend(retrieve_node(retrieve_node(s, n, lchild), n, rchild),
                    e, lchild, rchild)
    IN IF s.err # "ok" THEN [s |-> s, ret |-> FALSE]
       ELSE IF i >= Len(NodeAt(s, n).entries) THEN [s |-> s, ret |-> TRUE]
       ELSE IF i + 1 >= Len(NodeAt(s, n).children)
       THEN [s |-> Throw(s, "UB"), ret |-> FALSE]
       ELSE pair(At(NodeAt(s, n).entries, i), At(NodeAt(s, n).children, i),
                 At(NodeAt(s, n).children, i + 1))

validate_node(s, n, depth) ==
    LET check(node) ==
            IF depth > BTREE_MAX_DEPTH THEN [s |-> s, ret |-> FALSE]
            ELSE IF ~is_sorted(node.entries) THEN [s |-> s, ret |-> FALSE]
            ELSE IF node.parent_page_number # INVALID_PAGE
                    /\ (Len(node.entries) < s.max \div 2 \/ Len(node.entries) > s.max)
            THEN [s |-> s, ret |-> FALSE]
            ELSE IF is_leaf(node) THEN [s |-> s, ret |-> TRUE]
            ELSE validate_children(s, n, 0, depth)
    IN IF s.err # "ok" THEN [s |-> s, ret |-> FALSE] ELSE check(NodeAt(s, n))

validate_btree_structure(s) ==
    LET from(r) ==
            IF r.s.err # "ok" THEN [s |-> r.s, ret |-> FALSE]
            ELSE IF r.n = nullptr THEN [s |-> r.s, ret |-> TRUE]
            ELSE validate_node(r.s, r.n, 0)
    IN from(get_root_node(s))

\* validate_free_list: [s, ret]; the loop from step i on
RECURSIVE free_list_loop(_, _, _, _)
\* the loop without the test of prev
free_list_loop_no_prev(s, pg, prev, i) ==
    LET step(r) ==
            IF r.s.err # "ok" THEN [s |-> r.s, ret |-> FALSE]
            ELSE free_list_loop(s, r.fp.next, pg, i + 1)
    IN IF i >= s.num_free_page THEN [s |-> s, ret |-> pg = INVALID_PAGE]
       ELSE step(read_free_page(s, pg))

free_list_loop(s, pg, prev, i) ==
    LET step(r) ==
            IF r.s.err # "ok" THEN [s |-> r.s, ret |-> FALSE]
            ELSE IF r.fp.prev # prev THEN [s |-> s, ret |-> FALSE]
            ELSE free_list_loop(s, r.fp.next, pg, i + 1)
    IN IF i >= s.num_free_page THEN [s |-> s, ret |-> pg = INVALID_PAGE]
       ELSE step(read_free_page(s, pg))

validate_free_list(s) == free_list_loop(s, s.start_free_page, INVALID_PAGE, 0)

\* ------------------------------------------------------------------- state
VARIABLES
    root_page,          \* header scalar
    start_free_page,    \* header scalar: head of the free list
    num_free_page,      \* header scalar: length of the free list
    m_stream,           \* the blocks of the stream
    m_node_cache,       \* page number -> resident node
    MAX_NUM_ENTRIES,    \* fixed by the build
    err,                \* "ok" until an operation throws
    names,              \* the names the callers of this run use
    values,             \* the (id, type) pairs the callers of this run store
    did,                \* history: the steps the last operation took
    dir,                \* the map the directory stands for: name -> value or None
    m_lock,             \* lite_format::File: the thread that holds the mutex
    m_file_stream,      \* lite_format::File: the lock held on the file stream
    pc                  \* lite_format::File: where each thread is in lock/unlock

vars == <<root_page, start_free_page, num_free_page, m_stream, m_node_cache,
          MAX_NUM_ENTRIES, err, names, values, did, dir, m_lock, m_file_stream, pc>>

\* the threads that share one lite_format::File
Threads == 1 .. NumThreads

Nobody == 0

\* the file stream with no lock on it
Unheld == [owner |-> Nobody, exclusive |-> FALSE]

\* a thread outside lock() and unlock(); last is how its last call ended
AtRest == [at |-> "idle", exclusive |-> FALSE, last |-> "none"]

None == [id |-> 0, type |-> 0]

UBOutcomes == {"crash", "lt", "ge"}

\* the directory object as the operators take it
This(ub) == [root_page |-> root_page, start_free_page |-> start_free_page,
             num_free_page |-> num_free_page, m_stream |-> m_stream,
             m_node_cache |-> m_node_cache, max |-> MAX_NUM_ENTRIES,
             err |-> err, ub |-> ub, io |-> INVALID_PAGE, did |-> {}]

Cur == This("crash")

Install(s) ==
    /\ root_page' = s.root_page
    /\ start_free_page' = s.start_free_page
    /\ num_free_page' = s.num_free_page
    /\ m_stream' = s.m_stream
    /\ m_node_cache' = s.m_node_cache
    /\ err' = s.err
    /\ did' = s.did
    /\ UNCHANGED <<MAX_NUM_ENTRIES, names, values, m_lock, m_file_stream, pc>>

\* a fresh directory on an empty stream
FreshDir(max) ==
    [root_page |-> INVALID_PAGE, start_free_page |-> INVALID_PAGE,
     num_free_page |-> 0, m_stream |-> <<>>, m_node_cache |-> <<>>,
     max |-> max, err |-> "ok", ub |-> "crash", io |-> INVALID_PAGE, did |-> {}]

\* the directory after add_entry of the names i..k in ascending order
RECURSIVE BuiltFrom(_, _, _)
BuiltFrom(s, i, k) ==
    LET next(r) == IF r.ret THEN BuiltFrom(r.s, i + 1, k) ELSE r.s
    IN IF i > k THEN s ELSE next(add_entry(s, i, BaseValue.id, BaseValue.type))

BuiltDir(max, k) == BuiltFrom(FreshDir(max), 1, k)

StartAt(s, present, callers, stored) ==
    /\ root_page = s.root_page
    /\ start_free_page = s.start_free_page
    /\ num_free_page = s.num_free_page
    /\ m_stream = s.m_stream
    /\ m_node_cache = s.m_node_cache
    /\ MAX_NUM_ENTRIES = s.max
    /\ err = s.err
    /\ names = callers
    /\ values = stored
    /\ did = {}
    /\ dir = [n \in AllNames |-> IF n \in present THEN BaseValue ELSE None]
    /\ m_lock = Nobody
    /\ m_file_stream = Unheld
    /\ pc = [t \in Threads |-> AtRest]

Init ==
    \/ StartAt(FreshDir(RefMaxEntries), {}, Names, Values)
    \/ StartAt(BuiltDir(RefMaxEntries, SmallBase), 1 .. SmallBase, SmallNames, {BaseValue})
    \/ StartAt(BuiltDir(RefMaxEntries, BaseSize), 1 .. BaseSize, DeepNames, {BaseValue})

AddEntry ==
    /\ err = "ok"
    /\ \E name \in names, v \in values :
          /\ Install(add_entry(Cur, name, v.id, v.type).s)
          /\ dir' = IF name \in DOMAIN dir /\ dir[name] = None
                    THEN [dir EXCEPT ![name] = v] ELSE dir

\* A call that runs into undefined behaviour ends in any of the outcomes of
\* UBOutcomes; err = "UB" then records that the run has left defined
\* behaviour, and the run is followed no further.
RemoveEntry ==
    /\ err = "ok"
    /\ \E name \in names :
          /\ IF remove_entry(Cur, name).s.err = "UB"
             THEN \E ub \in UBOutcomes :
                      Install(Throw(remove_entry(This(ub), name).s, "UB"))
             ELSE Install(remove_entry(Cur, name).s)
          /\ dir' = IF name \in DOMAIN dir THEN [dir EXCEPT ![name] = None] ELSE dir

Next == AddEntry \/ RemoveEntry

Spec == Init /\ [][Next]_vars

\* names are only ever inserted, into the fresh directory
InitInsert == StartAt(FreshDir(RefMaxEntries), {}, InsertNames, Values)

NextInsert == AddEntry

SpecInsert == InitInsert /\ [][NextInsert]_vars

\* the fresh directory of any build
BuildLimits == 4 .. MaxBuildEntries

InitAnyMax == \E max \in BuildLimits : StartAt(FreshDir(max), {}, Names, Values)

NextAnyMax == AddEntry \/ RemoveEntry

SpecAnyMax == InitAnyMax /\ [][NextAnyMax]_vars

\* the cache is flushed and cleared between the calls
FlushCache ==
    /\ err = "ok"
    /\ Install(flush_cache(Cur))
    /\ UNCHANGED dir

ClearCache ==
    /\ err = "ok"
    /\ Install(clear_cache(Cur))
    /\ UNCHANGED dir

InitCache ==
    \/ StartAt(FreshDir(RefMaxEntries), {}, CacheNames, {BaseValue})
    \/ StartAt(clear_cache(flush_cache(BuiltDir(RefMaxEntries, SmallBase))),
               1 .. SmallBase, ReopenNames, {BaseValue})

NextCache == AddEntry \/ RemoveEntry \/ FlushCache \/ ClearCache

SpecCache == InitCache /\ [][NextCache]_vars

\* the instance is destroyed between the calls, on a stream that may refuse
\* the write of one page, and a new instance is opened on the stream
Destroy ==
    /\ err = "ok"
    /\ \E bad \in {INVALID_PAGE} \cup DOMAIN m_node_cache :
          Install(destructor([Cur EXCEPT !.io = bad]))
    /\ UNCHANGED dir

NextDestroy == AddEntry \/ RemoveEntry \/ Destroy

SpecDestroy == InitCache /\ [][NextDestroy]_vars

\* a directory opened on a damaged stream: the stream and header of a
\* directory that add_entry and remove_entry built (two leaves, a root and a
\* free page), with any header values and at most one block altered: its
\* flag (0 for 1, 1 for 0, or 2), its next or prev pointer, one of its child
\* pointers, or its entries
\* (put in descending order, or all but the first dropped)
OpenedDir ==
    clear_cache(flush_cache(remove_entry(BuiltDir(RefMaxEntries, SmallBase), 1).s))

PageNumbers == INVALID_PAGE .. stream_size(OpenedDir)

Damaged(blk) ==
    {blk, [blk EXCEPT !.flag = 1 - @], [blk EXCEPT !.flag = 2]}
        \cup {[blk EXCEPT !.next = pg] : pg \in PageNumbers}
        \cup {[blk EXCEPT !.prev = pg] : pg \in PageNumbers}
        \cup {[blk EXCEPT !.children[i] = pg] :
                  i \in DOMAIN blk.children, pg \in PageNumbers}
        \cup {[blk EXCEPT !.entries = [i \in DOMAIN @ |-> @[Len(@) + 1 - i]]],
              [blk EXCEPT !.entries = IF @ = <<>> THEN @ ELSE <<@[1]>>]}

DamagedStreams ==
    UNION {{[OpenedDir.m_stream EXCEPT ![num + 1] = blk] :
                blk \in Damaged(At(OpenedDir.m_stream, num))} :
               num \in Pages(OpenedDir)}

DamagedDirs ==
    {[OpenedDir EXCEPT !.root_page = root, !.start_free_page = start,
                       !.num_free_page = count, !.m_stream = stream] :
         root \in PageNumbers, start \in PageNumbers, count \in 0 .. MaxFreeCount,
         stream \in DamagedStreams}

InitDamaged == \E s \in DamagedDirs : StartAt(s, {}, ProbeNames, {})

\* the two validations, called on the opened directory; did records what
\* they return
Returned(v) ==
    IF v.s.err # "ok" THEN v.s
    ELSE Mark(v.s, IF v.ret THEN "true" ELSE "false")

ValidateFreeList ==
    /\ err = "ok"
    /\ Install(Returned(validate_free_list(Cur)))
    /\ UNCHANGED dir

ValidateBtreeStructure ==
    /\ err = "ok"
    /\ Install(Returned(validate_btree_structure(Cur)))
    /\ UNCHANGED dir

\* get_entry on the opened directory; did records whether it found the name
GetEntry ==
    /\ err = "ok"
    /\ \E name \in names :
          LET looked(g) ==
                  IF g.s.err # "ok" THEN g.s
                  ELSE Mark(g.s, IF g.ret THEN "found" ELSE "absent")
          IN Install(looked(get_entry(Cur, name)))
    /\ UNCHANGED dir

NextDamaged == ValidateFreeList \/ ValidateBtreeStructure \/ GetEntry

SpecDamaged == InitDamaged /\ [][NextDamaged]_vars

\* a directory opened on a stream whose child pointers may form a cycle:
\* page 0 is the root with three entries and the children 1 and 2, page 1
\* a leaf, page 2 a node with one entry and any child pointers
LoopNames == {1, 2, 4, 6}

Entry(name) == [id |-> BaseValue.id, type |-> BaseValue.type, filename |-> name]

NodeBlock(names_, cs) ==
    [flag |-> 1, next |-> 0, prev |-> 0, children |-> cs,
     entries |-> [i \in DOMAIN names_ |-> Entry(names_[i])]]

LoopPointers == UNION {[1 .. k -> 0 .. 2] : k \in 0 .. 2}

LoopedDirs ==
    {[FreshDir(RefMaxEntries) EXCEPT
         !.root_page = 0,
         !.m_stream = <<NodeBlock(<<3, 6, 7>>, <<1, 2>>), NodeBlock(<<1, 2>>, <<>>),
                        NodeBlock(<<4>>, cs)>>] : cs \in LoopPointers}

InitLooped == \E s \in LoopedDirs : StartAt(s, {1, 2, 3, 4, 6, 7}, LoopNames, {BaseValue})

NextLooped == AddEntry \/ RemoveEntry \/ GetEntry

SpecLooped == InitLooped /\ [][NextLooped]_vars

\* callers that use names of every length on a built directory; dir follows
\* the names of AllNames only
LengthNames == {1, 4, EdgeName, LongName}

InitLengths ==
    StartAt(BuiltDir(RefMaxEntries, SmallBase), 1 .. SmallBase, LengthNames, {BaseValue})

NextLengths == AddEntry \/ RemoveEntry \/ GetEntry

SpecLengths == InitLengths /\ [][NextLengths]_vars

\* callers of a fresh directory of a case-insensitive file system
CaseNames == {1, UpperFoo, MixedFoo, LowerFoo}

InitCase == StartAt(FreshDir(RefMaxEntries), {}, CaseNames, Values)

NextCase == AddEntry \/ RemoveEntry \/ GetEntry

SpecCase == InitCase /\ [][NextCase]_vars

\* iterate_over_entries with a callback that accepts every entry
IterateOverEntries ==
    /\ err = "ok"
    /\ Install(iterate_over_entries(Cur).s)
    /\ UNCHANGED dir

\* the calls that only read the directory or only move nodes between cache
\* and stream, among add_entry and remove_entry calls
NextReaders ==
    \/ AddEntry \/ RemoveEntry
    \/ GetEntry \/ IterateOverEntries
    \/ ValidateFreeList \/ ValidateBtreeStructure
    \/ FlushCache \/ ClearCache

SpecReaders == InitCache /\ [][NextReaders]_vars

\* ------------------------------------------- lite_format::File lock, unlock
\* the File as the steps of lock() and unlock() take it
ThisFile == [m_lock |-> m_lock, m_file_stream |-> m_file_stream, pc |-> pc]

InstallFile(f) ==
    /\ m_lock' = f.m_lock
    /\ m_file_stream' = f.m_file_stream
    /\ pc' = f.pc
    /\ UNCHANGED <<root_page, start_free_page, num_free_page, m_stream, m_node_cache,
                   MAX_NUM_ENTRIES, err, names, values, did, dir>>

\* thread t moves on to the statement at
Goto(f, t, at) == [f EXCEPT !.pc[t].at = at]

\* the call of thread t is over
Return(f, t, last) == [f EXCEPT !.pc[t].at = "idle", !.pc[t].last = last]

\* a catch handler of lock() that rethrows with the mutex still held
lock_catch_rethrow(f, t) == Return(f, t, "threw")

\* lock(): catch (...) { m_lock.unlock(); throw; }
lock_catch(f, t) == Return([f EXCEPT !.m_lock = Nobody], t, "threw")

\* lock(): m_lock.lock() has returned to thread t
lock_mutex(f, t) == Goto([f EXCEPT !.m_lock = t], t, "m_file_stream->lock")

\* lock(): m_file_stream->lock(exclusive) has returned, and so does lock()
lock_file_stream(f, t) ==
    Goto([f EXCEPT !.m_file_stream = [owner |-> t, exclusive |-> f.pc[t].exclusive]],
         t, "locked")

\* unlock(): m_file_stream->unlock()
unlock_file_stream(f, t) == Goto([f EXCEPT !.m_file_stream = Unheld], t, "m_lock.unlock")

\* unlock(): m_lock.unlock(), and unlock() returns
unlock_mutex(f, t) == Return([f EXCEPT !.m_lock = Nobody], t, "unlocked")

\* thread t calls lock(exclusive) and waits for the mutex
Lock(t) ==
    /\ pc[t].at = "idle"
    /\ \E exclusive \in BOOLEAN :
          InstallFile([ThisFile EXCEPT !.pc[t].at = "m_lock.lock",
                                       !.pc[t].exclusive = exclusive])

\* the mutex is free and thread t gets it
LockMutex(t) ==
    /\ pc[t].at = "m_lock.lock"
    /\ m_lock = Nobody
    /\ InstallFile(lock_mutex(ThisFile, t))

LockFileStream(t) ==
    /\ pc[t].at = "m_file_stream->lock"
    /\ InstallFile(lock_file_stream(ThisFile, t))

\* m_file_stream->lock(exclusive) throws
LockFileStreamThrows(t) ==
    /\ pc[t].at = "m_file_stream->lock"
    /\ InstallFile(Goto(ThisFile, t, "catch"))

LockCatch(t) ==
    /\ pc[t].at = "catch"
    /\ InstallFile(lock_catch(ThisFile, t))

\* thread t, holding the File, calls unlock()
Unlock(t) ==
    /\ pc[t].at = "locked"
    /\ InstallFile(unlock_file_stream(ThisFile, t))

UnlockMutex(t) ==
    /\ pc[t].at = "m_lock.unlock"
    /\ InstallFile(unlock_mutex(ThisFile, t))

InitLock == StartAt(FreshDir(RefMaxEntries), {}, {}, {})

NextLock ==
    \E t \in Threads :
        \/ Lock(t) \/ LockMutex(t)
        \/ LockFileStream(t) \/ LockFileStreamThrows(t) \/ LockCatch(t)
        \/ Unlock(t) \/ UnlockMutex(t)

SpecLock == InitLock /\ [][NextLock]_vars

\* ------------------------------------------------- the shape of the tree
\* the node of page p as the engine sees it: the resident node, or the
\* decoding of the block
View(s, p) ==
    IF Resident(s, p) THEN NodeAt(s, p)
    ELSE IF Readable(s, p) THEN from_buffer(NewNode(INVALID_PAGE), At(s.m_stream, p))
    ELSE NewNode(INVALID_PAGE)

SeqRange(v) == {v[i] : i \in 1 .. Len(v)}

KeysOf(node) == {node.entries[i].filename : i \in 1 .. Len(node.entries)}

\* no tree over the pages of the stream is deeper than this
WalkDepth(s) == Len(s.m_stream) + 1

\* the pages of the subtree of p in pre-order, a page as often as it is met
RECURSIVE PagesBelow(_, _, _)
RECURSIVE PagesOfChildren(_, _, _, _)
PagesOfChildren(s, cs, i, d) ==
    IF i > Len(cs) THEN <<>>
    ELSE PagesBelow(s, cs[i], d) \o PagesOfChildren(s, cs, i + 1, d)

PagesBelow(s, p, d) ==
    IF d = 0 THEN <<p>>
    ELSE <<p>> \o PagesOfChildren(s, View(s, p).children, 1, d - 1)

TreePages(s) ==
    IF s.root_page = INVALID_PAGE THEN <<>>
    ELSE PagesBelow(s, s.root_page, WalkDepth(s))

RECURSIVE KeysBelow(_, _, _)
KeysBelow(s, p, d) ==
    KeysOf(View(s, p))
        \cup IF d = 0 THEN {}
             ELSE UNION {KeysBelow(s, c, d - 1) : c \in SeqRange(View(s, p).children)}

\* the depths at which the subtree of p, itself at depth at, has its leaves
RECURSIVE LeafDepths(_, _, _, _)
LeafDepths(s, p, at, d) ==
    IF d = 0 \/ is_leaf(View(s, p)) THEN {at}
    ELSE UNION {LeafDepths(s, c, at + 1, d - 1) : c \in SeqRange(View(s, p).children)}

TreeLeafDepths(s) ==
    IF s.root_page = INVALID_PAGE THEN {}
    ELSE LeafDepths(s, s.root_page, 1, WalkDepth(s))

\* the number of levels of the tree
Height(s) ==
    IF TreeLeafDepths(s) = {} THEN 0
    ELSE CHOOSE h \in TreeLeafDepths(s) : \A g \in TreeLeafDepths(s) : g <= h

\* the pages of the free list in list order, following next from
\* start_free_page for as long as free pages are read
RECURSIVE FreeFrom(_, _, _)
FreeFrom(s, pg, d) ==
    IF d = 0 \/ ~Readable(s, pg) THEN <<>>
    ELSE IF At(s.m_stream, pg).flag # 0 THEN <<>>
    ELSE <<pg>> \o FreeFrom(s, At(s.m_stream, pg).next, d - 1)

FreeList(s) == FreeFrom(s, s.start_free_page, WalkDepth(s))

Present == {n \in AllNames : dir[n] # None}

\* ------------------------------------------------------------ properties
Stored(r) == [id |-> r.id, type |-> r.type]

\* C1: the directory is the map dir: in every state reached by add_entry /
\* remove_entry calls, get_entry(x) and remove_entry(x) succeed exactly for
\* the names of the map and hand out the id and type the inserting add_entry
\* stored, and add_entry(x) returns true exactly for the names not in it.
C1_MapRefinement ==
    /\ err = "ok"
    /\ \A x \in AllNames :
          LET g == get_entry(Cur, x)
          IN /\ g.s.err = "ok" /\ g.ret = (dir[x] # None)
             /\ g.ret => Stored(g) = dir[x]
    /\ \A x \in names :
          LET r == remove_entry(Cur, x)
          IN /\ r.s.err = "ok" /\ r.ret = (dir[x] # None)
             /\ r.ret => Stored(r) = dir[x]
             /\ \A v \in values :
                   LET a == add_entry(Cur, x, v.id, v.type)
                   IN a.s.err = "ok" /\ a.ret = (dir[x] = None)

C1_Witness ==
    /\ "merge_leaf" \in did
    /\ \E x \in Present : dir[x].id = 2 /\ Stored(get_entry(Cur, x)) = dir[x]
    /\ \E x \in names : dir[x] = None /\ ~get_entry(Cur, x).ret

\* C2: after every add_entry / remove_entry both validate_btree_structure()
\* and validate_free_list() return true (and do not throw).
C2_ValidateTrue ==
    LET b == validate_btree_structure(Cur)
        f == validate_free_list(Cur)
    IN b.s.err = "ok" /\ b.ret /\ f.s.err = "ok" /\ f.ret

C2_Witness ==
    /\ "collapse" \in did
    /\ num_free_page >= 2
    /\ ~is_leaf(View(Cur, root_page))
    /\ validate_btree_structure(Cur).ret /\ validate_free_list(Cur).ret

StrictlySorted(es) == \A i \in 1 .. Len(es) - 1 : es[i].filename < es[i + 1].filename

SearchTree(s) ==
    \A p \in SeqRange(TreePages(s)) :
        LET node == View(s, p)
        IN /\ StrictlySorted(node.entries)
           /\ \A i \in 1 .. Len(node.entries) :
                 /\ i <= Len(node.children) =>
                       \A k \in KeysBelow(s, node.children[i], WalkDepth(s)) :
                           k < node.entries[i].filename
                 /\ i + 1 <= Len(node.children) =>
                       \A k \in KeysBelow(s, node.children[i + 1], WalkDepth(s)) :
                           node.entries[i].filename < k

NonRootPages(s) == SeqRange(TreePages(s)) \ {s.root_page}

\* C4: in every build (MAX_NUM_ENTRIES >= 4) every non-root node holds at
\* least ceil(MAX_NUM_ENTRIES / 2) and at most MAX_NUM_ENTRIES entries.
C4_FillCeil ==
    \A p \in NonRootPages(Cur) :
        /\ Len(View(Cur, p).entries) >= (MAX_NUM_ENTRIES + 1) \div 2
        /\ Len(View(Cur, p).entries) <= MAX_NUM_ENTRIES

\* a build with an even limit, right after a split that left a leaf with
\* fewer entries than half the limit
C4_Witness ==
    /\ MAX_NUM_ENTRIES = 4
    /\ "split_leaf" \in did
    /\ \E p \in NonRootPages(Cur) : Len(View(Cur, p).entries) < MAX_NUM_ENTRIES \div 2

\* C5: all leaves of the tree are at the same depth.
C5_LeavesLevel == Cardinality(TreeLeafDepths(Cur)) <= 1

C5_Witness ==
    /\ {"split_internal", "new_root"} \subseteq did
    /\ TreeLeafDepths(Cur) = {3}

\* C6: every node reachable from the root is a leaf without children or has
\* one child more than it has entries.
C6_ChildCount ==
    \A p \in SeqRange(TreePages(Cur)) :
        \/ View(Cur, p).children = <<>>
        \/ Len(View(Cur, p).children) = Len(View(Cur, p).entries) + 1

C6_Witness ==
    /\ "merge_internal" \in did
    /\ Len(View(Cur, root_page).children) >= 6
    /\ Len(View(Cur, root_page).children) = Len(View(Cur, root_page).entries) + 1

\* C7: whatever the order in which a set of names was inserted into the
\* empty tree, get_entry succeeds exactly for the names inserted and iterate
\* emits each of them exactly once and nothing else.
C7_InsertOrder ==
    LET out == iterate_over_entries(Cur)
    IN /\ out.s.err = "ok"
       /\ Len(out.out) = Cardinality(Present)
       /\ {out.out[i].filename : i \in 1 .. Len(out.out)} = Present
       /\ \A x \in AllNames : get_entry(Cur, x).ret = (x \in Present)

C7_Witness ==
    /\ Present = InsertNames
    /\ Height(Cur) = 2
    /\ Len(iterate_over_entries(Cur).out) = Cardinality(InsertNames)

C9_FreeList ==
    LET fl == FreeList(Cur)
    IN /\ Len(fl) = num_free_page
       /\ Cardinality(SeqRange(fl)) = Len(fl)
       /\ IF fl = <<>> THEN start_free_page = INVALID_PAGE
          ELSE /\ At(m_stream, fl[1]).prev = INVALID_PAGE
               /\ \A i \in 2 .. Len(fl) : At(m_stream, fl[i]).prev = fl[i - 1]
               /\ At(m_stream, fl[Len(fl)]).next = INVALID_PAGE

C9_Witness ==
    /\ "reuse" \in did
    /\ num_free_page >= 1
    /\ Len(FreeList(Cur)) = num_free_page

Count(v, x) == Cardinality({i \in 1 .. Len(v) : v[i] = x})

SameTree(s, t) ==
    /\ t.root_page = s.root_page
    /\ t.start_free_page = s.start_free_page
    /\ t.num_free_page = s.num_free_page
    /\ stream_size(t) = stream_size(s)
    /\ \A p \in Pages(s) :
          /\ View(t, p).entries = View(s, p).entries
          /\ View(t, p).children = View(s, p).children

\* C11: add_entry(x) for a name x the tree already contains returns false and
\* leaves root_page, start_free_page, num_free_page, the stream size and the
\* entries and children of every node as they were, whatever id and type are
\* passed and whatever part of the tree is in the cache.
C11_AddPresentFrame ==
    \A x \in AllNames, v \in Values :
        LET a == add_entry(Cur, x, v.id, v.type)
        IN (err = "ok" /\ get_entry(Cur, x).ret)
               => a.s.err = "ok" /\ ~a.ret /\ SameTree(Cur, a.s)

\* a found name below the root whose leaf add_entry has to read from the stream
C11_Witness ==
    /\ err = "ok"
    /\ \E x \in AllNames, v \in Values :
          LET a == add_entry(Cur, x, v.id, v.type)
          IN /\ get_entry(Cur, x).ret /\ Stored(get_entry(Cur, x)) # v
             /\ ~a.ret
             /\ DOMAIN a.s.m_node_cache # DOMAIN m_node_cache
             /\ Height(Cur) >= 2

\* C12: remove_entry(x) for a name x the tree does not contain reports absence
\* (returns false) and leaves root_page, start_free_page, num_free_page, the
\* stream size and the entries and children of every node as they were.
C12_RemoveAbsentFrame ==
    \A x \in AllNames :
        LET r == remove_entry(Cur, x)
        IN (err = "ok" /\ get_entry(Cur, x).s.err = "ok" /\ ~get_entry(Cur, x).ret)
               => r.s.err = "ok" /\ ~r.ret /\ SameTree(Cur, r.s)

\* an absent name whose search goes below the root and reads a leaf from the
\* stream
C12_Witness ==
    /\ err = "ok"
    /\ \E x \in AllNames :
          LET r == remove_entry(Cur, x)
          IN /\ get_entry(Cur, x).s.err = "ok" /\ ~get_entry(Cur, x).ret
             /\ ~r.ret
             /\ DOMAIN r.s.m_node_cache # DOMAIN m_node_cache
             /\ Height(Cur) >= 2

\* ------------------------------------------------------ insert, then remove
\* what get_entry answers for every name, and what iterate yields: the
\* traversal is unordered, its result is the entries emitted and how often
\* each is emitted
Answers(s) == [y \in AllNames |-> Stored(get_entry(s, y))]
Found(s) == {y \in AllNames : get_entry(s, y).ret}
Emitted(out) == [e \in SeqRange(out) |-> Count(out, e)]
Listing(s) == Emitted(iterate_over_entries(s).out)

\* the insert of an absent name x followed by its removal, handed to then
\* as the states after the insert and after the removal
SameObserved(s, t) ==
    /\ t.err = "ok"
    /\ Found(t) = Found(s) /\ Answers(t) = Answers(s)
    /\ Listing(t) = Listing(s)

SameSpace(s, t) ==
    /\ stream_size(t) = stream_size(s)
    /\ t.num_free_page = s.num_free_page

Splits == {"split_leaf", "split_internal"}

C14_FlushWritesDirty ==
    LET flushed(f) ==
            f.err = "ok" =>
                \A num \in DOMAIN f.m_node_cache :
                    /\ ~NodeAt(f, num).dirty
                    /\ At(f.m_stream, num) = to_buffer(NodeAt(f, num))
                    /\ ~NodeAt(Cur, num).dirty
                           => At(f.m_stream, num) = At(m_stream, num)
    IN err = "ok" => flushed(flush_cache(Cur))

\* a flush that finds a dirty and a clean node in the cache and writes the
\* dirty one
C14_Witness ==
    /\ err = "ok"
    /\ \E num, other \in DOMAIN m_node_cache :
          /\ NodeAt(Cur, num).dirty /\ ~NodeAt(Cur, other).dirty
          /\ At(m_stream, num) # to_buffer(NodeAt(Cur, num))
          /\ At(flush_cache(Cur).m_stream, num) = to_buffer(NodeAt(Cur, num))
    /\ flush_cache(Cur).err = "ok"

\* C15: clear_cache writes every dirty cached node to its page before it
\* drops the cached nodes, so that get_entry and iterate, which read the
\* stream again after it, observe every earlier add_entry and remove_entry.
C15_ClearWritesBack ==
    LET cleared(c) ==
            /\ c.err = "ok" /\ c.m_node_cache = <<>>
            /\ \A num \in DOMAIN m_node_cache :
                  NodeAt(Cur, num).dirty
                      => At(c.m_stream, num) = to_buffer(NodeAt(Cur, num))
            /\ Found(c) = Found(Cur) /\ Answers(c) = Answers(Cur)
            /\ Listing(c) = Listing(Cur)
    IN err = "ok" => cleared(clear_cache(Cur))

\* clear_cache right after a call that changed the tree: the cache holds a
\* dirty node, and a name get_entry finds is not found after the clear
C15_Witness ==
    /\ err = "ok"
    /\ did \cap {"clear", "write_node"} = {}
    /\ \E num \in DOMAIN m_node_cache : NodeAt(Cur, num).dirty
    /\ Found(Cur) \ Found(clear_cache(Cur)) # {}

\* ------------------------------------------------------------ the allocator
LastPage == stream_size(Cur) - 1

\* the header of the free list and the blocks of its pages are in t what they
\* are in s
SameFreeList(s, t) ==
    /\ t.start_free_page = s.start_free_page
    /\ t.num_free_page = s.num_free_page
    /\ \A pg \in SeqRange(FreeList(s)) : At(t.m_stream, pg) = At(s.m_stream, pg)

\* C16: deallocate_page(p) of the last page of the stream, a page of the
\* tree, shrinks the stream by exactly one block, to p blocks, and leaves
\* start_free_page, num_free_page and every page of the free list untouched.
C16_DeallocateLastShrinks ==
    LET freed(d) ==
            /\ d.err = "ok"
            /\ stream_size(d) = LastPage
            /\ SameFreeList(Cur, d)
    IN (err = "ok" /\ LastPage \in SeqRange(TreePages(Cur)))
           => freed(deallocate_page(Cur, LastPage))

\* a remove_entry that merges two nodes and hands the last page of the stream
\* to deallocate_page
C16_Witness ==
    /\ err = "ok" /\ LastPage \in SeqRange(TreePages(Cur))
    /\ \E x \in names :
          LET freed(r) ==
                  /\ r.err = "ok" /\ LastPage \notin SeqRange(TreePages(r))
                  /\ r.did \cap {"merge_leaf", "merge_internal"} # {}
                  /\ r.start_free_page = LastPage
                  /\ stream_size(r) = stream_size(Cur)
          IN freed(remove_entry(Cur, x).s)

\* C17: whenever the free list is not empty, allocate_page returns its head,
\* leaves the stream size as it is, makes the old head's next the new
\* start_free_page, lowers num_free_page by one and sets prev of the new
\* head, if there is one, to INVALID_PAGE; the stream grows only in a call
\* that finds start_free_page = INVALID_PAGE.
C17_AllocateReuses ==
    LET head == At(m_stream, start_free_page)
        popped(a) ==
            /\ a.s.err = "ok"
            /\ a.pg = start_free_page
            /\ stream_size(a.s) = stream_size(Cur)
            /\ a.s.start_free_page = head.next
            /\ a.s.num_free_page = num_free_page - 1
            /\ head.next # INVALID_PAGE
                   => At(a.s.m_stream, head.next)
                          = [At(m_stream, head.next) EXCEPT !.prev = INVALID_PAGE]
        grown(a) == stream_size(a.s) # stream_size(Cur)
                        => start_free_page = INVALID_PAGE
    IN err = "ok" =>
           /\ start_free_page # INVALID_PAGE => popped(allocate_page(Cur))
           /\ grown(allocate_page(Cur))

\* an add_entry that splits a node while the free list holds two pages or
\* more: the sibling gets the head, the next page becomes the head
C17_Witness ==
    /\ err = "ok" /\ num_free_page >= 2
    /\ At(m_stream, At(m_stream, start_free_page).next).prev = start_free_page
    /\ \E x \in names :
          LET split(a) ==
                  /\ a.err = "ok" /\ "reuse" \in a.did
                  /\ start_free_page \in SeqRange(TreePages(a))
                  /\ a.start_free_page = At(m_stream, start_free_page).next
                  /\ At(a.m_stream, a.start_free_page).prev = INVALID_PAGE
          IN split(add_entry(Cur, x, BaseValue.id, BaseValue.type).s)

\* C18: when start_free_page = INVALID_PAGE, allocate_page grows the stream
\* by exactly one block, returns the index of the new last page (the old
\* number of blocks) and leaves start_free_page, num_free_page and the old
\* blocks as they are; so a fresh tree into which at most MAX_NUM_ENTRIES
\* names were inserted has a stream of one block and root_page = 0.
C18_AllocateGrows ==
    LET grown(a) ==
            /\ a.s.err = "ok"
            /\ a.pg = stream_size(Cur)
            /\ stream_size(a.s) = stream_size(Cur) + 1
            /\ SubSeq(a.s.m_stream, 1, stream_size(Cur)) = m_stream
            /\ a.s.start_free_page = start_free_page
            /\ a.s.num_free_page = num_free_page
    IN err = "ok" =>
           /\ start_free_page = INVALID_PAGE => grown(allocate_page(Cur))
           /\ (Present # {} /\ Cardinality(Present) <= MAX_NUM_ENTRIES)
                  => stream_size(Cur) = 1 /\ root_page = 0

\* MAX_NUM_ENTRIES names were inserted into the fresh tree, the first insert
\* took page 0 from allocate_page, and the next page would be page 1
C18_Witness ==
    /\ err = "ok"
    /\ Cardinality(Present) = MAX_NUM_ENTRIES
    /\ Len(View(Cur, 0).entries) = MAX_NUM_ENTRIES
    /\ root_page = 0 /\ stream_size(Cur) = 1
    /\ allocate_page(Cur).pg = 1

\* C19: deallocate_page(p) of a page of the tree that is not the last page of
\* the stream pushes p onto the head of the free list: the block of p becomes
\* a free page with prev = INVALID_PAGE and next = the old start_free_page,
\* the old head, if there is one, gets prev = p and keeps its next,
\* start_free_page becomes p, num_free_page grows by one, and the stream
\* size and every other block stay as they are.
C19_DeallocatePushes ==
    LET pushed(p, d) ==
            /\ d.err = "ok"
            /\ At(d.m_stream, p)
                   = [ZeroBlock EXCEPT !.prev = INVALID_PAGE, !.next = start_free_page]
            /\ start_free_page # INVALID_PAGE
                   => At(d.m_stream, start_free_page)
                          = [At(m_stream, start_free_page) EXCEPT !.prev = p]
            /\ d.start_free_page = p
            /\ d.num_free_page = num_free_page + 1
            /\ stream_size(d) = stream_size(Cur)
            /\ \A q \in Pages(Cur) \ {p, start_free_page} :
                  At(d.m_stream, q) = At(m_stream, q)
    IN err = "ok" =>
           \A p \in SeqRange(TreePages(Cur)) \ {LastPage} :
               pushed(p, deallocate_page(Cur, p))

\* a remove_entry that merges two nodes and hands a page that is not the
\* last one to deallocate_page while the free list already holds a page
C19_Witness ==
    /\ err = "ok" /\ start_free_page # INVALID_PAGE
    /\ \E x \in names :
          LET freed(r) ==
                  /\ r.err = "ok" /\ "push" \in r.did
                  /\ r.start_free_page \notin {start_free_page, LastPage}
                  /\ r.num_free_page = num_free_page + 1
                  /\ At(r.m_stream, r.start_free_page).next = start_free_page
                  /\ At(r.m_stream, start_free_page).prev = r.start_free_page
          IN freed(remove_entry(Cur, x).s)

\* ------------------------------------------------------- damaged directories
\* C20: whatever the stream holds and whatever the header values are,
\* validate_free_list and validate_btree_structure raise no exception: a
\* violation they detect is reported by the return value false.
C20_ValidateNeverThrows ==
    err = "ok" =>
        /\ validate_free_list(Cur).s.err # "Corrupted"
        /\ validate_btree_structure(Cur).s.err # "Corrupted"

\* validate_free_list has raised CorruptedDirectoryException (the directory
\* has no root, so validate_btree_structure raises nothing) on a free list
\* that ends before num_free_page pages were visited: its one page is a free
\* page linked as the walk expects, and the walk arrives at INVALID_PAGE
\* with a page still to read
C20_Witness ==
    /\ err = "Corrupted"
    /\ root_page = INVALID_PAGE /\ m_node_cache = <<>>
    /\ start_free_page # INVALID_PAGE
    /\ Len(FreeList(Cur)) = 1 /\ num_free_page = 2
    /\ At(m_stream, start_free_page).prev = INVALID_PAGE
    /\ At(m_stream, start_free_page).next = INVALID_PAGE
    /\ m_stream = OpenedDir.m_stream

\* ------------------------------------------------------- what validation sees
\* the node of page p breaks one of the rules validate_node tests: entries in
\* order, between MAX_NUM_ENTRIES / 2 and MAX_NUM_ENTRIES entries unless it is
\* the root, every separator strictly between the last entry of the child on
\* its left and the first entry of the child on its right
BreaksRule(s, p) ==
    LET node == View(s, p)
        outside(e, lchild, rchild) ==
            \/ lchild.entries # <<>>
                   /\ ~(Back(lchild.entries).filename < e.filename)
            \/ rchild.entries # <<>>
                   /\ ~(e.filename < rchild.entries[1].filename)
    IN \/ ~is_sorted(node.entries)
       \/ /\ p # s.root_page
          /\ (Len(node.entries) < s.max \div 2 \/ Len(node.entries) > s.max)
       \/ \E i \in 1 .. Len(node.entries) :
              /\ i + 1 <= Len(node.children)
              /\ outside(node.entries[i], View(s, node.children[i]),
                         View(s, node.children[i + 1]))

Faulty(s) == \E p \in SeqRange(TreePages(s)) : BreaksRule(s, p)

\* C21: validate_btree_structure returns false whenever a node reachable from
\* the root, at whatever depth, has entries out of order, has fewer or more
\* entries than a non-root node may have, or has a separator that is not
\* strictly between the last entry of its left child and the first entry of
\* its right child.  (The trees checked have a handful of pages and cannot
\* exceed the depth bound.)
C21_ValidateRecurses ==
    LET reported(v) == (v.s.err = "ok" /\ Faulty(Cur)) => ~v.ret
    IN err = "ok" => reported(validate_btree_structure(Cur))

\* validate_btree_structure has read the tree and returned true, and a leaf
\* below the root has its entries in descending order
C21_Witness ==
    /\ err = "ok" /\ did = {"true"}
    /\ root_page # INVALID_PAGE /\ Resident(Cur, root_page)
    /\ \E p \in NonRootPages(Cur) :
          /\ Resident(Cur, p)
          /\ ~is_sorted(NodeAt(Cur, p).entries)
    /\ validate_btree_structure(Cur).ret

\* following next from start_free_page visits exactly num_free_page free
\* pages and then arrives at INVALID_PAGE, and prev of every page visited is
\* the page visited before it, INVALID_PAGE for the first
WellLinked(s) ==
    LET walk == FreeFrom(s, s.start_free_page, s.num_free_page + 1)
        before(i) == IF i = 1 THEN INVALID_PAGE ELSE walk[i - 1]
        after(i) == At(s.m_stream, walk[i]).next
    IN /\ Len(walk) = s.num_free_page
       /\ IF walk = <<>> THEN s.start_free_page = INVALID_PAGE
          ELSE after(Len(walk)) = INVALID_PAGE
       /\ \A i \in 1 .. Len(walk) : At(s.m_stream, walk[i]).prev = before(i)

\* C22: validate_free_list returns true exactly when following next from
\* start_free_page visits exactly num_free_page pages and then reaches
\* INVALID_PAGE, with prev of each visited page the page visited just before
\* it (INVALID_PAGE for the head).
C22_FreeListVerdict ==
    LET verdict(v) == (v.s.err = "ok" /\ v.ret) <=> WellLinked(Cur)
    IN err = "ok" => verdict(validate_free_list(Cur))

\* validate_free_list has returned true on a list of one page or more, and
\* has returned false on a list whose links are intact but whose length is
\* not num_free_page
C22_Witness ==
    /\ err = "ok"
    /\ \/ /\ did = {"true"} /\ num_free_page >= 1 /\ WellLinked(Cur)
          /\ validate_free_list(Cur).ret
       \/ /\ did = {"false"} /\ num_free_page = 0 /\ Len(FreeList(Cur)) = 1
          /\ ~validate_free_list(Cur).ret
          /\ m_stream = OpenedDir.m_stream /\ m_node_cache = <<>>
          /\ root_page = INVALID_PAGE

\* C23: a page read as a node whose flag word is neither 0 nor 1 is signalled
\* as Corrupted: on a directory opened on a stream whose root page has such a
\* flag, get_entry raises Corrupted instead of returning a result.
C23_BadFlagCorrupted ==
    \A x \in AllNames :
        (/\ err = "ok" /\ Readable(Cur, root_page) /\ ~Resident(Cur, root_page)
         /\ At(m_stream, root_page).flag \notin {0, 1})
            => get_entry(Cur, x).s.err = "Corrupted"

\* get_entry has returned the entry of a name from a root it decoded from a
\* block whose flag is 2
C23_Witness ==
    /\ err = "ok" /\ did = {"found"}
    /\ Readable(Cur, root_page) /\ Resident(Cur, root_page)
    /\ At(m_stream, root_page).flag = 2
    /\ NodeAt(Cur, root_page).entries = At(m_stream, root_page).entries
    /\ NodeAt(Cur, root_page).entries # <<>>

\* ----------------------------------------------------------------- the cache
\* C24: retrieve_node(parent, num) for a cached page whose parent differs from
\* a parent other than INVALID_PAGE raises Corrupted and leaves the cache as
\* it is; for a cached page otherwise it hands out the cached node and reads
\* and changes nothing; for a page not in the cache it reads and decodes the
\* block and installs the node with parent_page_number = parent.
C24_RetrieveNode ==
    \A parent_num \in PageNumbers, num \in Pages(Cur) :
        LET hit(r) ==
                IF parent_num # INVALID_PAGE
                      /\ parent_num # NodeAt(Cur, num).parent_page_number
                THEN r.err = "Corrupted" /\ r.m_node_cache = m_node_cache
                ELSE r = Cur
            miss(r) ==
                /\ r.err = "ok"
                /\ DOMAIN r.m_node_cache = DOMAIN m_node_cache \cup {num}
                /\ \A other \in DOMAIN m_node_cache :
                      NodeAt(r, other) = NodeAt(Cur, other)
                /\ NodeAt(r, num)
                       = from_buffer(NewNode(parent_num), At(m_stream, num))
                /\ NodeAt(r, num).parent_page_number = parent_num
                /\ r.m_stream = m_stream
        IN err = "ok" =>
               IF Resident(Cur, num) THEN hit(retrieve_node(Cur, parent_num, num))
               ELSE miss(retrieve_node(Cur, parent_num, num))

\* a call has read the root and a child of it into the cache, a further page
\* is not cached, and asking for the cached child as the child of another
\* page raises Corrupted
C24_Witness ==
    /\ err = "ok" /\ did # {}
    /\ \E num \in DOMAIN m_node_cache, other \in Pages(Cur) :
          /\ NodeAt(Cur, num).parent_page_number = root_page
          /\ other \notin DOMAIN m_node_cache \cup {root_page}
          /\ retrieve_node(Cur, other, num).err = "Corrupted"
          /\ retrieve_node(Cur, root_page, num) = Cur
          /\ Resident(retrieve_node(Cur, root_page, other), other)

\* two resident nodes, each the last child and the recorded parent of the
\* other: the round on which the predecessor descent never ends
Round(s, p, q) ==
    /\ Resident(s, p) /\ Resident(s, q)
    /\ ~is_leaf(NodeAt(s, p)) /\ Back(NodeAt(s, p).children) = q
    /\ ~is_leaf(NodeAt(s, q)) /\ Back(NodeAt(s, q).children) = p
    /\ NodeAt(s, p).parent_page_number = q
    /\ NodeAt(s, q).parent_page_number = p

\* C25: every traversal terminates on any stream contents, child pointers
\* that form a cycle included: no call of get_entry, add_entry or remove_entry
\* goes on for ever; each returns or raises.
C25_TraversalsTerminate == err # "Hang"

\* remove_entry has found its name in an inner node and its predecessor
\* descent goes round two nodes for ever
C25_Witness ==
    /\ err = "Hang"
    /\ \E p \in DOMAIN m_node_cache, q \in DOMAIN m_node_cache : Round(Cur, p, q)

\* the call that ended in t read, wrote and allocated nothing: header
\* scalars, stream and cache are those of s and no step was taken
Untouched(s, t) ==
    /\ t.root_page = s.root_page
    /\ t.start_free_page = s.start_free_page
    /\ t.num_free_page = s.num_free_page
    /\ t.m_stream = s.m_stream
    /\ t.m_node_cache = s.m_node_cache
    /\ t.did = {}

\* C26: get_entry, add_entry and remove_entry called with a name longer
\* than MAX_FILENAME_LENGTH fail with NameTooLong before touching the tree:
\* no page is read, written or allocated, and the header scalars, the stream
\* and the cache are unchanged.
C26_LongNameRefused ==
    LET refused(t) == t.err = "NameTooLong" /\ Untouched(Cur, t)
    IN err = "ok" =>
          /\ name_size(LongName) > MAX_FILENAME_LENGTH
          /\ refused(get_entry(Cur, LongName).s)
          /\ refused(remove_entry(Cur, LongName).s)
          /\ \A v \in values : refused(add_entry(Cur, LongName, v.id, v.type).s)

\* a call with the long name has failed on a directory with a tree, part
\* of it resident, and a name of exactly MAX_FILENAME_LENGTH bytes stored
C26_Witness ==
    /\ err = "NameTooLong"
    /\ did = {}
    /\ root_page # INVALID_PAGE
    /\ m_node_cache # <<>>
    /\ \E p \in DOMAIN m_node_cache :
          \E i \in DOMAIN m_node_cache[p].entries :
              m_node_cache[p].entries[i].filename = EdgeName

\* C27: key equality in find / add_entry / get_entry is decided by the
\* injected comparator: with the case-insensitive comparator, when a name is
\* stored ("Foo"), add_entry of a name the comparator holds equal ("foo")
\* returns false and get_entry of such a name ("FOO") returns the stored id.
C27_ComparatorEquality ==
    LET same(g, h) == h.ret /\ h.id = g.id /\ h.type = g.type
    IN err = "ok" =>
          \A a \in names, b \in names :
              get_entry(Cur, a).ret /\ case_insensitive_compare(a, b) = 0 =>
                  /\ same(get_entry(Cur, a), get_entry(Cur, b))
                  /\ \A v \in values : ~add_entry(Cur, b, v.id, v.type).ret

\* add_entry("Foo") has stored the id 2 and add_entry("foo") the id 1 after
\* it: both names are in the root leaf, and "FOO" is not
C27_Witness ==
    /\ err = "ok"
    /\ get_entry(Cur, MixedFoo).ret /\ get_entry(Cur, MixedFoo).id = 2
    /\ get_entry(Cur, LowerFoo).ret /\ get_entry(Cur, LowerFoo).id = 1
    /\ ~get_entry(Cur, UpperFoo).ret

\* the step is an add_entry that overflowed a root leaf: the root was a
\* leaf and the call split a leaf and made a new root
RootLeafOverflow ==
    /\ err = "ok" /\ err' = "ok"
    /\ root_page # INVALID_PAGE
    /\ is_leaf(View(Cur, root_page))
    /\ {"split_leaf", "new_root"} \subseteq did'

\* C28: when an insert overflows a root leaf (the (MAX_NUM_ENTRIES + 1)-th
\* entry), root_page changes to a newly allocated page, the stream grows by
\* two blocks when no free page is there to reuse (to three blocks from a
\* fresh tree), the new root has exactly one entry and two children, and
\* every leaf holds at least 2 entries.
C28_RootLeafSplit ==
    [][RootLeafOverflow =>
          /\ root_page' # root_page
          /\ root_page' \notin SeqRange(TreePages(Cur))
          /\ num_free_page = 0 => Len(m_stream') = Len(m_stream) + 2
          /\ Len(m_stream) = 1 => Len(m_stream') = 3
          /\ Len(m_node_cache'[root_page'].entries) = 1
          /\ Len(m_node_cache'[root_page'].children) = 2
          /\ \A i \in 1 .. Len(m_node_cache'[root_page'].children) :
                LET leaf == m_node_cache'[m_node_cache'[root_page'].children[i]]
                IN is_leaf(leaf) /\ Len(leaf.entries) >= 2]_vars

\* the fifth insert of a build with MAX_NUM_ENTRIES = 4 has split the root
\* leaf of the fresh tree: three blocks, a root with one entry over two
\* leaves
C28_Witness ==
    /\ err = "ok"
    /\ MAX_NUM_ENTRIES = 4
    /\ {"split_leaf", "new_root", "grow"} \subseteq did
    /\ Len(m_stream) = 3
    /\ root_page = 2
    /\ Len(m_node_cache[root_page].entries) = 1
    /\ m_node_cache[root_page].children = <<0, 1>>

\* the dirty pages of the cache
DirtyPages(s) == {num \in DOMAIN s.m_node_cache : NodeAt(s, num).dirty}

\* C29: destroying a directory instance attempts to flush all dirty nodes
\* and never propagates an error: when no write fails every dirty node is
\* on its page afterwards, and when the write of a page fails during the
\* flush the exception is swallowed and destruction completes (no error
\* leaves the destructor, the cache is gone, the refused page and the header
\* scalars are as they were).
C29_DestructorSwallows ==
    LET done(d) ==
            /\ d.err = "ok"
            /\ "destroyed" \in d.did
            /\ d.m_node_cache = <<>>
            /\ d.root_page = root_page
            /\ d.start_free_page = start_free_page
            /\ d.num_free_page = num_free_page
        refused(d, bad) ==
            /\ "swallowed" \in d.did
            /\ At(d.m_stream, bad) = At(m_stream, bad)
        flushed(d) ==
            /\ "swallowed" \notin d.did
            /\ \A num \in DirtyPages(Cur) :
                  At(d.m_stream, num) = to_buffer(NodeAt(Cur, num))
        ends(d, bad) ==
            /\ done(d)
            /\ IF bad \in DirtyPages(Cur) THEN refused(d, bad) ELSE flushed(d)
    IN err = "ok" =>
          \A bad \in {INVALID_PAGE} \cup DOMAIN m_node_cache :
              ends(destructor([Cur EXCEPT !.io = bad]), bad)

\* an instance with two dirty nodes has been destroyed: one node was
\* written, the write of the next failed and the failure was swallowed
C29_Witness ==
    /\ err = "ok"
    /\ {"write_node", "swallowed", "destroyed"} \subseteq did
    /\ m_node_cache = <<>>
    /\ root_page # INVALID_PAGE

\* the call that ended in t left the header scalars and the size of the
\* stream as they are in s
SameHeader(s, t) ==
    /\ t.root_page = s.root_page
    /\ t.start_free_page = s.start_free_page
    /\ t.num_free_page = s.num_free_page
    /\ stream_size(t) = stream_size(s)

\* C30: get_entry, iterate, validate_btree_structure, validate_free_list,
\* flush and clear_cache leave root_page, start_free_page, num_free_page and
\* stream.size() unchanged, and the read-only ones among them (get_entry,
\* iterate, validate_*) write no block: the stream is unchanged.
C30_ReadersFrame ==
    LET reads(t) == SameHeader(Cur, t) /\ t.m_stream = m_stream
    IN err = "ok" =>
          /\ \A x \in names : reads(get_entry(Cur, x).s)
          /\ reads(iterate_over_entries(Cur).s)
          /\ reads(validate_btree_structure(Cur).s)
          /\ reads(validate_free_list(Cur).s)
          /\ SameHeader(Cur, flush_cache(Cur))
          /\ SameHeader(Cur, clear_cache(Cur))

\* get_entry has just found a name in a tree of two levels whose root is
\* dirty in the cache, with a page on the free list
C30_Witness ==
    /\ err = "ok"
    /\ "found" \in did
    /\ num_free_page > 0
    /\ root_page \in DOMAIN m_node_cache
    /\ m_node_cache[root_page].dirty
    /\ ~is_leaf(m_node_cache[root_page])

\* The overflow of node n as the claim has it.  s is the directory before
\* the entry went in, t the directory after the call, es and cs the entries
\* and children of n with the entry (and the child to its right) inserted.
\* Without overflow n holds es and cs.  With overflow, mid = Len(es) / 2 - 1,
\* n keeps es[0..mid) and cs[0..mid], a page sib that was not resident before
\* holds es[mid+1..] and cs[mid+1..], and es[mid] goes with sib to its right
\* into the parent, or into a new root over n and sib.
RECURSIVE SplitAsClaimed(_, _, _, _, _)
SplitAsClaimed(s, t, n, es, cs) ==
    LET holds(p, es1, cs1) ==
            /\ Resident(t, p)
            /\ NodeAt(t, p).entries = es1
            /\ NodeAt(t, p).children = cs1
        above(parent, e, sib) ==
            IF parent = INVALID_PAGE
            THEN /\ t.root_page \notin DOMAIN s.m_node_cache
                 /\ t.root_page # sib
                 /\ holds(t.root_page, <<e>>, <<n, sib>>)
            ELSE /\ Resident(s, parent)
                 /\ SplitAsClaimed(
                        s, t, parent,
                        InsertAt(NodeAt(s, parent).entries,
                                 lower_bound(NodeAt(s, parent).entries, e.filename), e),
                        InsertAt(NodeAt(s, parent).children,
                                 lower_bound(NodeAt(s, parent).entries, e.filename) + 1,
                                 sib))
        kids(from, to) == IF cs = <<>> THEN <<>> ELSE SubSeq(cs, from, to)
        halves(mid) ==
            /\ holds(n, SubSeq(es, 1, mid), kids(1, mid + 1))
            /\ \E sib \in (DOMAIN t.m_node_cache) \ (DOMAIN s.m_node_cache) :
                  /\ holds(sib, SubSeq(es, mid + 2, Len(es)), kids(mid + 2, Len(cs)))
                  /\ above(NodeAt(s, n).parent_page_number, es[mid + 1], sib)
    IN IF Len(es) <= s.max THEN holds(n, es, cs)
       ELSE halves(Len(es) \div 2 - 1)

\* C31: when insert_and_balance overflows a node n, with
\* mid = entries.len() / 2 - 1 the promoted entry is n.entries[mid], n keeps
\* the former entries[0..mid) and children[0..mid], the new sibling holds
\* the former entries[mid+1..] and children[mid+1..], and the promoted entry
\* goes into the parent with the sibling's page as the child immediately to
\* its right; checked for every add_entry of an absent name, at every level
\* the overflow reaches.
C31_SplitHalves ==
    LET entry(x, v) == [filename |-> x, id |-> v.id, type |-> v.type]
        split(f, t, x, v) ==
            /\ f.s.err = "ok" /\ t.err = "ok"
            /\ SplitAsClaimed(
                   f.s, t, f.node,
                   InsertAt(NodeAt(f.s, f.node).entries, f.index, entry(x, v)), <<>>)
    IN err = "ok" /\ root_page # INVALID_PAGE =>
          \A x \in names, v \in values :
              ~get_entry(Cur, x).ret =>
                  split(find_node(Cur, x), add_entry(Cur, x, v.id, v.type).s, x, v)

\* an add_entry has overflowed a leaf and then its parent, the root, whose
\* halves are now the two children of a new root
C31_Witness ==
    /\ err = "ok"
    /\ {"split_leaf", "split_internal", "new_root"} \subseteq did
    /\ Len(m_node_cache[root_page].children) = 2
    /\ \A i \in 1 .. 2 : ~is_leaf(m_node_cache[m_node_cache[root_page].children[i]])

\* the directory after the step
After ==
    [root_page |-> root_page', start_free_page |-> start_free_page',
     num_free_page |-> num_free_page', m_stream |-> m_stream',
     m_node_cache |-> m_node_cache', max |-> MAX_NUM_ENTRIES',
     err |-> err', ub |-> "crash", io |-> INVALID_PAGE, did |-> did']

\* C32: when a removal leaves the root with zero entries and exactly one
\* child, that child becomes the new root (root_page is set to it and, if it
\* is resident, its parent_page_number becomes INVALID_PAGE), the old root's
\* page is deallocated and dropped from the cache, and the height of the
\* tree decreases by one; when the root emptied by a merge was the root of a
\* tree of height 2, the tree has height 1 afterwards and the merged-away
\* sibling page and the old root page are both on the free list.
C32_RootCollapse ==
    [][err' = "ok" /\ "collapse" \in did' =>
          /\ root_page' # root_page
          /\ root_page' \in SeqRange(View(Cur, root_page).children)
          /\ root_page' \in DOMAIN m_node_cache' =>
                m_node_cache'[root_page'].parent_page_number = INVALID_PAGE
          /\ root_page \notin DOMAIN m_node_cache'
          /\ root_page \in SeqRange(FreeList(After))
          /\ root_page \notin SeqRange(TreePages(After))
          /\ Height(After) = Height(Cur) - 1
          /\ Height(Cur) = 2 =>
                /\ Height(After) = 1
                /\ SeqRange(TreePages(After)) = {root_page'}
                /\ SeqRange(TreePages(Cur)) \ {root_page'} \subseteq SeqRange(FreeList(After))
                /\ num_free_page' = num_free_page + 2]_vars

\* a removal has merged the two leaves of a tree of height 2 and the root
\* has collapsed: the tree is one leaf, the two other pages are free
C32_Witness ==
    /\ err = "ok"
    /\ {"merge_leaf", "collapse"} \subseteq did
    /\ Height(Cur) = 1
    /\ num_free_page >= 2
    /\ m_node_cache[root_page].parent_page_number = INVALID_PAGE

\* the directory with an empty history
Fresh(s) == [s EXCEPT !.did = {}]

\* [s, n]: the directory as remove_entry(x) hands it to balance_up, and the
\* leaf n that has just lost an entry
Rebalanced(s, x) ==
    LET f == find_node(s, x)
    IN replace_with_sub_entry(f.s, f.node, f.index, 0)

\* the sequence v without its element at the 0-based position at
Without(v, at) == SubSeq(v, 1, at) \o SubSeq(v, at + 2, Len(v))

\* balance_up(n) on the directory s as the claim has it, at n and at every
\* ancestor the call goes on to.  A node under half of the limit is merged
\* with its sibling exactly when the two hold fewer than the limit together;
\* the merge leaves in left its entries, the separator and the entries of
\* right (at most the limit), and the children of both; the parent is
\* without the separator and without the pointer to right; right is out of
\* the cache and on the free list; the call then does on the parent what
\* balance_up(parent) does.
RECURSIVE MergeAsClaimed(_, _, _)
MergeAsClaimed(s, n, depth) ==
    LET merged(u, m, L, R, P, left, right, parent, index, t) ==
            /\ m.err = "ok"
            /\ At(P.children, index) = left /\ At(P.children, index + 1) = right
            /\ NodeAt(m, left).entries = L.entries \o <<At(P.entries, index)>> \o R.entries
            /\ Len(NodeAt(m, left).entries) <= s.max
            /\ NodeAt(m, left).children = L.children \o R.children
            /\ NodeAt(m, parent).entries = Without(P.entries, index)
            /\ NodeAt(m, parent).children = Without(P.children, index + 1)
            /\ ~Resident(m, right)
            /\ right \in SeqRange(FreeList(m))
            /\ right \notin SeqRange(FreeList(u))
            /\ t = balance_up(m, parent, depth + 1)
            /\ (IF is_leaf(L) THEN "merge_leaf" ELSE "merge_internal") \in t.did
            /\ MergeAsClaimed(m, parent, depth + 1)
        rotated(r, L, parent, t, up) ==
            /\ t = balance_up(r, parent, depth + 1)
            /\ (IF is_leaf(L) THEN "rotate_leaf" ELSE "rotate_internal") \in t.did
            /\ t.did \cap {IF is_leaf(L) THEN "merge_leaf" ELSE "merge_internal"}
                  \subseteq up.did
            /\ MergeAsClaimed(r, parent, depth + 1)
        fix(u, left, right, parent, index, t) ==
            IF Len(NodeAt(u, left).entries) + Len(NodeAt(u, right).entries) < s.max
            THEN merged(u, merge(u, left, right, parent, index),
                        NodeAt(u, left), NodeAt(u, right), NodeAt(u, parent),
                        left, right, parent, index, t)
            ELSE rotated(rotate(u, left, right, parent, index),
                         NodeAt(u, left), parent, t,
                         balance_up(Fresh(rotate(u, left, right, parent, index)),
                                    parent, depth + 1))
        pair(fs, parent, t) ==
            \/ fs.s.err # "ok"
            \/ NodeAt(fs.s, n).entries = <<>>
            \/ NodeAt(fs.s, fs.sibling).entries = <<>>
            \/ IF Back(NodeAt(fs.s, n).entries).filename
                      < NodeAt(fs.s, fs.sibling).entries[1].filename
               THEN fix(fs.s, n, fs.sibling, parent, fs.index, t)
               ELSE fix(fs.s, fs.sibling, n, parent, fs.index, t)
        under(node, t) ==
            IF \/ node.parent_page_number = INVALID_PAGE
               \/ Len(node.entries) >= s.max \div 2
            THEN t.did \cap {"merge_leaf", "merge_internal",
                             "rotate_leaf", "rotate_internal"} = {}
            ELSE /\ Resident(s, node.parent_page_number)
                 /\ pair(find_sibling(Fresh(s), node.parent_page_number, n),
                         node.parent_page_number, t)
    IN s.err = "ok" /\ Resident(s, n) /\ depth < BTREE_MAX_DEPTH =>
          under(NodeAt(s, n), balance_up(Fresh(s), n, depth))

\* C33: balance_up merges a node under half of the limit with its sibling
\* only when the two hold fewer than MAX_NUM_ENTRIES entries together, so the
\* merged node has at most MAX_NUM_ENTRIES; the merge moves the separator of
\* the parent and the entries and children of right into left, takes the
\* separator and the pointer to right out of the parent, deallocates right
\* and drops it from the cache, and balance_up goes on with the parent;
\* checked for every remove_entry of a stored name, at every level the
\* rebalancing reaches.
C33_MergeAsClaimed ==
    LET from(r) == r.s.err = "ok" => MergeAsClaimed(Fresh(r.s), r.n, 0)
    IN err = "ok" /\ root_page # INVALID_PAGE =>
          \A x \in AllNames : get_entry(Cur, x).ret => from(Rebalanced(Cur, x))

\* a remove_entry has merged two leaves and then, the parent being under
\* half of the limit in turn, two inner nodes
C33_Witness ==
    /\ err = "ok"
    /\ {"merge_leaf", "merge_internal"} \subseteq did
    /\ Height(Cur) = 2

\* the difference of two counts
Apart(a, b) == IF a < b THEN b - a ELSE a - b

\* the minimum fill of a non-root node as the specification has it, half of
\* the limit rounded up, and as balance_up and validate_node test it, half
\* of the limit rounded down
CeilHalf(max) == (max + 1) \div 2
FloorHalf(max) == max \div 2

\* balance_up(n) on the directory s as the claim has its rotations, at n and
\* at every ancestor the call goes on to; least is the minimum fill.  u is
\* the directory before rotate(left, right, parent.entries[index]) and r the
\* directory after it: the entries of left, the separator and the entries of
\* right are the same sequence as before, and so are the children of left
\* and right; left has half of the entries, right the rest but the
\* separator; both have at least the minimum; an inner node has one child
\* more than entries; the parent differs in the separator only.
RECURSIVE RotateAsClaimed(_, _, _, _)
RotateAsClaimed(s, n, depth, least) ==
    LET dealt(L, R, P, l, r, p, index) ==
            /\ l.entries \o <<At(p.entries, index)>> \o r.entries
                  = L.entries \o <<At(P.entries, index)>> \o R.entries
            /\ l.children \o r.children = L.children \o R.children
            /\ Len(l.entries) = (Len(L.entries) + 1 + Len(R.entries)) \div 2
            /\ Apart(Len(l.entries), Len(r.entries)) <= 1
            /\ Len(l.entries) >= least /\ Len(r.entries) >= least
            /\ ~is_leaf(L) => /\ Len(l.children) = Len(l.entries) + 1
                              /\ Len(r.children) = Len(r.entries) + 1
            /\ is_leaf(L) => is_leaf(l) /\ is_leaf(r)
            /\ Len(p.entries) = Len(P.entries)
            /\ p.children = P.children
            /\ \A i \in 1 .. Len(P.entries) : i # index + 1 => p.entries[i] = P.entries[i]
        rotated(u, r, left, right, parent, index) ==
            /\ r.err = "ok"
            /\ dealt(NodeAt(u, left), NodeAt(u, right), NodeAt(u, parent),
                     NodeAt(r, left), NodeAt(r, right), NodeAt(r, parent), index)
            /\ RotateAsClaimed(r, parent, depth + 1, least)
        fix(u, left, right, parent, index) ==
            IF Len(NodeAt(u, left).entries) + Len(NodeAt(u, right).entries) < s.max
            THEN RotateAsClaimed(merge(u, left, right, parent, index), parent,
                                 depth + 1, least)
            ELSE rotated(u, rotate(u, left, right, parent, index),
                         left, right, parent, index)
        pair(fs, parent) ==
            \/ fs.s.err # "ok"
            \/ NodeAt(fs.s, n).entries = <<>>
            \/ NodeAt(fs.s, fs.sibling).entries = <<>>
            \/ IF Back(NodeAt(fs.s, n).entries).filename
                      < NodeAt(fs.s, fs.sibling).entries[1].filename
               THEN fix(fs.s, n, fs.sibling, parent, fs.index)
               ELSE fix(fs.s, fs.sibling, n, parent, fs.index)
        under(node) ==
            \/ node.parent_page_number = INVALID_PAGE
            \/ Len(node.entries) >= s.max \div 2
            \/ ~Resident(s, node.parent_page_number)
            \/ pair(find_sibling(s, node.parent_page_number, n), node.parent_page_number)
    IN s.err = "ok" /\ Resident(s, n) /\ depth < BTREE_MAX_DEPTH => under(NodeAt(s, n))

\* C34: rotate(left, right, separator) keeps the sequence left.entries ++
\* [separator] ++ right.entries and, for inner nodes, left.children ++
\* right.children, and deals them out again at the midpoint: afterwards the
\* entry counts of left and right differ by at most one, both are at least
\* the minimum fill (half of MAX_NUM_ENTRIES rounded up), each inner node has
\* one child more than entries, the parent has the entry count and the
\* children it had, and only its separator is overwritten; checked for every
\* remove_entry of a stored name, at every level the rebalancing reaches.
C34_RotateAsClaimed ==
    LET from(r) == RotateAsClaimed(r.s, r.n, 0, CeilHalf(r.s.max))
    IN err = "ok" /\ root_page # INVALID_PAGE =>
          \A x \in AllNames : get_entry(Cur, x).ret => from(Rebalanced(Cur, x))

\* the same with the minimum fill that balance_up and validate_node test,
\* half of MAX_NUM_ENTRIES rounded down
C34_RotateFloor ==
    LET from(r) == RotateAsClaimed(r.s, r.n, 0, FloorHalf(r.s.max))
    IN err = "ok" /\ root_page # INVALID_PAGE =>
          \A x \in AllNames : get_entry(Cur, x).ret => from(Rebalanced(Cur, x))

\* a remove_entry has rotated entries between two leaves, and one of the two
\* is left with fewer than half of the limit rounded up
C34_Witness ==
    /\ err = "ok"
    /\ "rotate_leaf" \in did
    /\ \E p \in SeqRange(TreePages(Cur)) :
          /\ p # root_page
          /\ Len(View(Cur, p).entries) < CeilHalf(MAX_NUM_ENTRIES)

\* the rightmost leaf of the subtree of page p
RECURSIVE Rightmost(_, _, _)
Rightmost(s, p, d) ==
    IF d = 0 \/ is_leaf(View(s, p)) THEN p
    ELSE Rightmost(s, Back(View(s, p).children), d - 1)

\* the page of the tree that holds the name x
Holder(s, x) == CHOOSE p \in SeqRange(TreePages(s)) : x \in KeysOf(View(s, p))

\* the 0-based position of the name x among the entries es
Slot(es, x) == (CHOOSE i \in 1 .. Len(es) : es[i].filename = x) - 1

\* the largest of a set of names
Largest(S) == CHOOSE y \in S : \A z \in S : z <= y

\* remove_entry(x) as the claim has it: s the directory before, h the page
\* that holds x and at the position of x in it, r the directory and the leaf
\* handed to balance_up, t the directory after the call.  Every page but h
\* and the leaf holds what it held.
RemovedAsClaimed(s, x, h, at, r, t) ==
    LET rest(touched) ==
            \A p \in SeqRange(TreePages(s)) \ touched :
                /\ View(r.s, p).entries = View(s, p).entries
                /\ View(r.s, p).children = View(s, p).children
        inner(node, leaf, e) ==
            /\ leaf = Rightmost(s, At(node.children, at), WalkDepth(s))
            /\ is_leaf(View(s, leaf))
            /\ e.filename
                  = Largest({y \in KeysBelow(s, s.root_page, WalkDepth(s)) : y < x})
            /\ r.n = leaf
            /\ View(r.s, h).entries = [node.entries EXCEPT ![at + 1] = e]
            /\ View(r.s, leaf).entries = PopBack(View(s, leaf).entries)
            /\ rest({h, leaf})
        outer(node) ==
            /\ r.n = h
            /\ View(r.s, h).entries = Without(node.entries, at)
            /\ rest({h})
        starts(node) ==
            /\ r.s.err = "ok"
            /\ IF is_leaf(node) THEN outer(node)
               ELSE inner(node, Rightmost(s, At(node.children, at), WalkDepth(s)),
                          Back(View(s, Rightmost(s, At(node.children, at),
                                                 WalkDepth(s))).entries))
            /\ t = balance_up(r.s, r.n, 0)
    IN starts(View(s, h))

\* C35: remove_entry of a key stored in an inner node puts in its place the
\* key's in-order predecessor, the last entry of the rightmost leaf of the
\* subtree under the child at the key's index, takes that entry out of the
\* leaf and starts balance_up from that leaf; remove_entry of a key stored
\* in a leaf erases it in place and starts balance_up from that leaf.
C35_RemoveByPredecessor ==
    err = "ok" /\ root_page # INVALID_PAGE =>
        \A x \in AllNames :
            get_entry(Cur, x).ret =>
                RemovedAsClaimed(Cur, x, Holder(Cur, x),
                                 Slot(View(Cur, Holder(Cur, x)).entries, x),
                                 Rebalanced(Cur, x), remove_entry(Cur, x).s)

\* a remove_entry has put a predecessor in the place of a key of an inner
\* node and merged the leaf it took the predecessor from
C35_Witness ==
    /\ err = "ok"
    /\ {"predecessor", "merge_leaf"} \subseteq did
    /\ Height(Cur) >= 2

\* C36: in every build (MAX_NUM_ENTRIES >= 4), on a tree that only add_entry
\* and remove_entry have built from the empty one, balance_up and
\* find_sibling never go out of range: balance_up compares the last entry of
\* the node with the first entry of its sibling only when both have an
\* entry (otherwise the call is undefined, err = "UB"), the sibling index is
\* valid, and no call fails with OutOfRange or Corrupted.
C36_BalanceInRange == err \notin {"UB", "OutOfRange", "Corrupted"}

\* the build with the limit 4 in which a remove_entry took the only entry
\* of a leaf and balance_up read the last entry of the empty leaf
C36_Witness ==
    /\ MAX_NUM_ENTRIES = 4
    /\ err = "UB"
    /\ \E p \in DOMAIN m_node_cache :
          /\ m_node_cache[p].parent_page_number # INVALID_PAGE
          /\ m_node_cache[p].entries = <<>>

\* every ancestor of the resident node n, along the parent numbers, is
\* resident
RECURSIVE AncestorsResident(_, _, _)
AncestorsResident(s, n, d) ==
    \/ NodeAt(s, n).parent_page_number = INVALID_PAGE
    \/ /\ d > 0
       /\ Resident(s, NodeAt(s, n).parent_page_number)
       /\ AncestorsResident(s, NodeAt(s, n).parent_page_number, d - 1)

\* balance_up(n) on the directory s finds the parent resident at n and at
\* every ancestor it goes on to, whatever the merges on the way have
\* deleted
RECURSIVE ParentsFound(_, _, _)
ParentsFound(s, n, depth) ==
    LET fix(u, left, right, parent, index) ==
            ParentsFound(IF Len(NodeAt(u, left).entries) + Len(NodeAt(u, right).entries)
                               < s.max
                         THEN merge(u, left, right, parent, index)
                         ELSE rotate(u, left, right, parent, index),
                         parent, depth + 1)
        pair(fs, parent) ==
            \/ fs.s.err # "ok"
            \/ NodeAt(fs.s, n).entries = <<>>
            \/ NodeAt(fs.s, fs.sibling).entries = <<>>
            \/ IF Back(NodeAt(fs.s, n).entries).filename
                      < NodeAt(fs.s, fs.sibling).entries[1].filename
               THEN fix(fs.s, n, fs.sibling, parent, fs.index)
               ELSE fix(fs.s, fs.sibling, n, parent, fs.index)
        under(node) ==
            \/ node.parent_page_number = INVALID_PAGE
            \/ Len(node.entries) >= s.max \div 2
            \/ /\ retrieve_existing_node(s, node.parent_page_number) # nullptr
               /\ pair(find_sibling(s, node.parent_page_number, n),
                       node.parent_page_number)
    IN s.err = "ok" /\ depth < BTREE_MAX_DEPTH => Resident(s, n) /\ under(NodeAt(s, n))

\* C37: when insert_and_balance or balance_up looks up the parent of a
\* non-root node in the cache (retrieve_existing_node), the parent is
\* resident: in add_entry and remove_entry the descent has loaded every
\* ancestor of the node that is rebalanced and none has been dropped, so the
\* lookup never returns null; checked for every call on every reachable
\* directory, with the cache as it is and with the cache flushed and cleared
\* before the call.
C37_ParentResident ==
    LET removing(r) ==
            r.s.err = "ok" =>
                AncestorsResident(r.s, r.n, WalkDepth(r.s)) /\ ParentsFound(r.s, r.n, 0)
        adding(f, t) ==
            f.s.err = "ok" /\ f.node # nullptr =>
                /\ AncestorsResident(f.s, f.node, WalkDepth(f.s))
                /\ t.err = "ok"
        calls(s) ==
            \A x \in AllNames :
                IF get_entry(s, x).ret THEN removing(Rebalanced(s, x))
                ELSE \A v \in values :
                         adding(find_node(s, x), add_entry(s, x, v.id, v.type).s)
    IN err = "ok" /\ root_page # INVALID_PAGE =>
          calls(Cur) /\ calls(clear_cache(flush_cache(Cur)))

\* an add_entry has split a leaf and handed the middle entry to the parent
\* it looked up in the cache, which overflowed in turn; every resident node
\* has its ancestors resident
C37_Witness ==
    /\ err = "ok"
    /\ {"split_leaf", "split_internal"} \subseteq did
    /\ \A p \in DOMAIN m_node_cache : AncestorsResident(Cur, p, WalkDepth(Cur))
    /\ \E p \in DOMAIN m_node_cache :
          /\ m_node_cache[p].parent_page_number # INVALID_PAGE
          /\ m_node_cache[m_node_cache[p].parent_page_number].parent_page_number
                # INVALID_PAGE

\* C38: a deallocated node is dropped from the cache without being written
\* back: between the calls no page of the free list is resident, so a
\* flush writes no node over a page of the free list and the free list is
\* after the flush what it was before.
C38_FreePagesNotResident ==
    LET intact(t) ==
            /\ t.err = "ok"
            /\ FreeList(t) = FreeList(Cur)
            /\ \A p \in SeqRange(FreeList(Cur)) : At(t.m_stream, p) = At(m_stream, p)
    IN err = "ok" =>
          /\ SeqRange(FreeList(Cur)) \cap DOMAIN m_node_cache = {}
          /\ Len(FreeList(Cur)) = num_free_page
          /\ intact(flush_cache(Cur))

\* the cache was cleared with the parent of a merge still dirty in it, and
\* a later call has followed the pointer that the parent has on the stream
\* into the page the merge freed
C38_Witness ==
    /\ err = "ok"
    /\ "clear" \notin did
    /\ num_free_page > 0
    /\ start_free_page \in DOMAIN m_node_cache
    /\ m_node_cache[start_free_page].entries = <<>>

\* the root of s is a leaf without entries
EmptyRoot(s) ==
    /\ s.root_page # INVALID_PAGE
    /\ View(s, s.root_page).entries = <<>>
    /\ View(s, s.root_page).children = <<>>

\* the directory s with the empty root leaf behaves as an empty directory,
\* and add_entry(x) puts x into the root page and allocates nothing
AsEmpty(s) ==
    LET added(t, x, v) ==
            /\ t.ret /\ t.s.err = "ok"
            /\ t.s.root_page = s.root_page
            /\ NodeAt(t.s, s.root_page).entries
                  = <<[filename |-> x, id |-> v.id, type |-> v.type]>>
            /\ is_leaf(NodeAt(t.s, s.root_page))
            /\ stream_size(t.s) = stream_size(s)
            /\ t.s.num_free_page = s.num_free_page
            /\ t.s.start_free_page = s.start_free_page
            /\ t.s.did \cap {"grow", "reuse"} = {}
    IN /\ \A x \in AllNames : ~get_entry(s, x).ret /\ get_entry(s, x).s.err = "ok"
       /\ iterate_over_entries(s).out = <<>>
       /\ validate_btree_structure(s).ret
       /\ validate_btree_structure(s).s.err = "ok"
       /\ \A x \in names, v \in values : added(add_entry(Fresh(s), x, v.id, v.type), x, v)

\* C39: once an add_entry has set root_page, root_page is never
\* INVALID_PAGE again: the removal of the last entry leaves an allocated
\* root leaf without entries, on which get_entry finds nothing, iterate
\* emits nothing, validate_btree_structure returns true and the next
\* add_entry inserts into the same page without allocating.
C39_RootStays ==
    [][/\ root_page # INVALID_PAGE => root_page' # INVALID_PAGE
       /\ /\ err' = "ok"
          /\ root_page # INVALID_PAGE
          /\ KeysBelow(Cur, root_page, WalkDepth(Cur)) # {}
          /\ KeysBelow(After, root_page', WalkDepth(After)) = {}
          /\ did' \cap {"clear", "destroyed"} = {}
          => /\ EmptyRoot(After)
             /\ root_page' \in DOMAIN m_node_cache'
             /\ AsEmpty(After)]_vars

\* a remove_entry has taken the last entry of a tree that had two levels
\* once: the root is an empty resident leaf, and pages are on the free list
C39_Witness ==
    /\ err = "ok"
    /\ EmptyRoot(Cur)
    /\ root_page \in DOMAIN m_node_cache
    /\ num_free_page > 0
    /\ did = {}

\* the statements of lock() and unlock() between which thread t holds the
\* mutex
InMutex == {"m_file_stream->lock", "catch", "locked", "m_lock.unlock"}

\* C40: File::lock takes the mutex first and the lock of the file stream
\* second; when the lock of the file stream throws, the mutex is released
\* before the exception leaves lock(), so that a failed lock() never leaves
\* the mutex held; unlock() releases the lock of the file stream first and
\* the mutex last, so that no other thread holds the mutex while the
\* previous owner still holds the lock of the file stream.
C40_LockOrder ==
    \A t \in Threads :
        /\ m_file_stream.owner = t => m_lock = t
        /\ m_lock = t <=> pc[t].at \in InMutex
        /\ m_file_stream.owner = t <=> pc[t].at = "locked"
        /\ pc[t].at = "idle" => m_lock # t /\ m_file_stream.owner # t
        /\ pc[t].at = "locked" => m_file_stream.exclusive = pc[t].exclusive

\* the lock() of one thread has failed and left it at rest, and another
\* thread has taken the mutex and the lock of the file stream since
C40_Witness ==
    \E t, u \in Threads :
        /\ pc[t].at = "idle" /\ pc[t].last = "threw"
        /\ pc[u].at = "locked" /\ m_lock = u /\ m_file_stream.owner = u


====
